---------------------------- MODULE Spec2Model ----------------------------
(***************************************************************************)
(* Model of the identity-resolution and enrichment pipeline of             *)
(* genai-company-matcher (src/src/core, src/src/infrastructure).           *)
(*                                                                         *)
(* Python values are modelled as follows: a str is a sequence of character *)
(* tokens (one-character strings, or a name such as "NBSP" for a non-ASCII *)
(* code point), written PyStr(s); a str whose characters play no part is   *)
(* PyText(s) with s an atom; None is the record PyNone; a list is         *)
(* PyList(s) with s a sequence; a raised exception is a record with        *)
(* ok |-> FALSE and the exception class in err.  The result of an f-string *)
(* is the sequence of its literal pieces and interpolated values, in       *)
(* order.                                                                  *)
(*                                                                         *)
(* Specifications:                                                         *)
(*   SpecNorm    MatchingService._validate_normalize_isin on bounded input *)
(*   SpecCompany the Company dataclass: construction, enrich,              *)
(*               has_sector_data and embedding_text                        *)
(*   SpecClient  EnrichmentService._query_wikidata and                     *)
(*               _chunked_query_wikidata / _query_wikidata_batch, one HTTP *)
(*               attempt per step, under the session's Retry policy        *)
(*   SpecStore   the company repository called directly                     *)
(*   SpecService EnrichmentService and MatchingService over a company      *)
(*               repository and a vector index, one service call per step  *)
(*   SpecRace    two processes in get_enriched_company_by_lei for the same *)
(*               LEI, one store or network operation per step              *)
(***************************************************************************)
EXTENDS Integers, Sequences, FiniteSets, TLC

VARIABLES
    raw,      \* the argument handed to _validate_normalize_isin
    nres,     \* outcome of the call on raw ("pending" before the call)
    nres2,    \* outcome of the call on the value the first call returned
    company,  \* a Company object held by a caller (NoCompany: none built)
    text,     \* what embedding_text() last returned for company
    call,     \* the knowledge-base client call in progress, or the last one
    req,      \* the session.get of that call: retries left, attempts made,
              \* and the body of the response that ended it
    cres,     \* what the last client call returned or raised
    service,  \* the services as wired: repository adapter, batch_size
    lei_metadata,  \* the entity rows of the identity store, by LEI
    index,    \* the documents of the vector index, by LEI
    wikidata_cache,  \* the rows of the tables wikidata_cache and
              \* company_sectors of the sqlite repository, by LEI
    last,     \* the last service call: its argument, the store and the
              \* index before it, what it loaded, the store, knowledge-base
              \* and index operations it performed, and what it returned or
              \* raised
    race      \* two processes inside get_enriched_company_by_lei for one
              \* LEI: the store they started from and, for each process,
              \* its position, its company, the answer it received and
              \* what it returned or raised

normVars == <<raw, nres, nres2>>
companyVars == <<company, text>>
clientVars == <<call, req, cres>>
serviceVars == <<service, lei_metadata, index, wikidata_cache, last, race>>
vars == <<raw, nres, nres2, company, text, call, req, cres,
          service, lei_metadata, index, wikidata_cache, last, race>>

----------------------------------------------------------------------------
(* Python values *)

PyNone == [t |-> "None"]
PyStr(s) == [t |-> "str", v |-> s]
PyText(s) == [t |-> "text", v |-> s]
PyList(s) == [t |-> "list", v |-> s]
Returned(v) == [ok |-> TRUE, val |-> v]
Raised(e) == [ok |-> FALSE, err |-> e]
Pending == [ok |-> FALSE, err |-> "pending"]

----------------------------------------------------------------------------
(* Characters.  ASCII characters stand for themselves; the other tokens    *)
(* are: NBSP U+00A0, TAB U+0009, FW_C U+FF23 (fullwidth C), FW_5 U+FF15    *)
(* (fullwidth 5), SZ U+00DF (sharp s), E_ACUTE U+00E9, E_ACUTE_UP U+00C9.  *)

AsciiUpper == {"C", "H", "U", "S", "X"}
AsciiLower == {"c", "h", "u", "s", "x"}
AsciiDigit == {"0", "1", "2", "3", "4", "5", "6", "7", "8", "9"}

\* unicodedata.normalize("NFKC", ch) for one code point
NFKCChar(ch) ==
    CASE ch = "FW_C" -> <<"C">>
      [] ch = "FW_5" -> <<"5">>
      [] ch = "NBSP" -> <<" ">>
      [] OTHER -> <<ch>>

\* str.isspace() for one code point
IsSpace(ch) == ch \in {" ", "TAB", "NBSP"}

\* str.upper() for one code point (sharp s upper-cases to two characters)
UpperChar(ch) ==
    CASE ch = "c" -> <<"C">>
      [] ch = "h" -> <<"H">>
      [] ch = "u" -> <<"U">>
      [] ch = "s" -> <<"S">>
      [] ch = "x" -> <<"X">>
      [] ch = "SZ" -> <<"S", "S">>
      [] ch = "E_ACUTE" -> <<"E_ACUTE_UP">>
      [] OTHER -> <<ch>>

\* str.swapcase() for one code point
SwapCaseChar(ch) ==
    CASE ch = "C" -> <<"c">>
      [] ch = "H" -> <<"h">>
      [] ch = "U" -> <<"u">>
      [] ch = "S" -> <<"s">>
      [] ch = "X" -> <<"x">>
      [] ch = "E_ACUTE_UP" -> <<"E_ACUTE">>
      [] OTHER -> UpperChar(ch)

RECURSIVE LStrip(_)
LStrip(s) ==
    IF s # <<>> /\ IsSpace(Head(s)) THEN LStrip(Tail(s)) ELSE s

RECURSIVE RStrip(_)
RStrip(s) ==
    IF s # <<>> /\ IsSpace(s[Len(s)]) THEN RStrip(SubSeq(s, 1, Len(s) - 1)) ELSE s

\* unicodedata.normalize("NFKC", isin)
RECURSIVE NFKC(_)
NFKC(s) ==
    IF s = <<>> THEN <<>> ELSE NFKCChar(Head(s)) \o NFKC(Tail(s))

\* isin.strip()
Strip(s) == RStrip(LStrip(s))

KeepChar(ch) == ~IsSpace(ch) /\ ch # "-"
KeepCharHyphen(ch) == ~IsSpace(ch)

\* "".join(ch for ch in isin if not ch.isspace())  -- the hyphen test lost
RemoveSpaceOnly(s) == SelectSeq(s, KeepCharHyphen)

\* "".join(ch for ch in isin if not ch.isspace() and ch != "-")
RemoveSpaceHyphen(s) == SelectSeq(s, KeepChar)

\* isin.swapcase()
RECURSIVE SwapCase(_)
SwapCase(s) ==
    IF s = <<>> THEN <<>> ELSE SwapCaseChar(Head(s)) \o SwapCase(Tail(s))

\* isin.upper()
RECURSIVE Upper(_)
Upper(s) ==
    IF s = <<>> THEN <<>> ELSE UpperChar(Head(s)) \o Upper(Tail(s))

\* ISIN_REGEX.match(isin): ^[A-Z]{2}[A-Z0-9]{9}[0-9]$ .  The subject holds
\* no line break when the match is made (every isspace character has been
\* removed), so $ matches at the end of the string only.
ISIN_LEN == 12
ISIN_REGEX(s) ==
    /\ Len(s) = 12
    /\ \A i \in 1..2 : s[i] \in AsciiUpper
    /\ \A i \in 3..11 : s[i] \in AsciiUpper \cup AsciiDigit
    /\ s[12] \in AsciiDigit

\* MatchingService._validate_normalize_isin
_validate_normalize_isin(isin) ==
    IF isin = PyNone \/ isin = PyStr(<<>>)
    THEN Raised("ValueError")                      \* "ISIN is None."
    ELSE LET s1 == Strip(NFKC(isin.v)) IN
         IF s1 = <<>>
         THEN Raised("ValueError")                 \* "empty after trimming"
         ELSE LET s2 == Upper(RemoveSpaceHyphen(s1)) IN
              IF Len(s2) # ISIN_LEN
              THEN Raised("ValueError")            \* "length mismatch"
              ELSE IF ~ISIN_REGEX(s2)
                   THEN Raised("ValueError")       \* "format not consistent"
                   ELSE Returned(PyStr(s2))

----------------------------------------------------------------------------
(* Bounded inputs of the normalizer *)

MaxPad == 1

PadChars == {" ", "NBSP", "TAB", "-"}

RECURSIVE SeqsUpTo(_, _)
SeqsUpTo(S, n) ==
    IF n = 0 THEN {<<>>}
    ELSE LET shorter == SeqsUpTo(S, n - 1) IN
         shorter \cup {<<x>> \o s : x \in S, s \in {t \in shorter : Len(t) = n - 1}}

Heads == {<<"c", "h">>, <<"C", "H">>, <<"U", "S">>, <<"FW_C", "H">>, <<"SZ">>,
          <<"1", "H">>, <<"E_ACUTE", "H">>, <<"H">>}
Bodies == {<<"0", "2", "4", "4", "7", "6", "7", "5", "8">>,
           <<"0", "3", "7", "8", "3", "3", "1", "0">>,
           <<"0", "2", "4", "4", "7", "6", "7", "5", "8", "0">>,
           <<"0", "2", "x", "4", "7", "H", "7", "5", "8">>,
           <<"0", "2", "4", "4", "_", "6", "7", "5", "8">>}
Tails == {<<"5">>, <<"0">>, <<"x">>, <<"FW_5">>, <<>>}

RawInputs ==
    {PyNone, PyStr(<<>>), PyStr(<<" ">>), PyStr(<<"NBSP", " ">>), PyStr(<<"-">>)}
    \cup {PyStr(l \o h \o p \o b \o t \o r) :
            l \in SeqsUpTo(PadChars, MaxPad), h \in Heads,
            p \in {<<>>, <<"-">>, <<" ">>}, b \in Bodies, t \in Tails,
            r \in {<<>>, <<" ">>, <<"NBSP">>}}

----------------------------------------------------------------------------
(* SpecNorm: the normalizer applied to an input, then to its own result *)

NoCompany == [lei |-> "none"]

CompanyIdle == company = NoCompany /\ text = Pending

NoCall == [state |-> "idle", kind |-> "none", leis |-> <<>>, chunk_size |-> 0,
           i |-> 0, results |-> <<>>]
NoBody == [t |-> "nobody"]
NoReq == [active |-> FALSE, total |-> 0, attempts |-> 0, last |-> [kind |-> "none"],
          leis |-> <<>>, body |-> NoBody]

ClientIdle == call = NoCall /\ req = NoReq /\ cres = Pending

NoService == [adapter |-> "none", batch_size |-> 0]
NoLast == [op |-> "none", arg |-> PyNone,
           before |-> [rows |-> <<>>, index |-> <<>>, cache |-> <<>>],
           loaded |-> Pending, result |-> Pending, trace |-> <<>>]
NoRace == [lei |-> "none", before |-> <<>>, proc |-> <<>>]
ServiceIdle ==
    /\ service = NoService /\ lei_metadata = <<>> /\ index = <<>>
    /\ wikidata_cache = <<>> /\ last = NoLast /\ race = NoRace

NormInit ==
    /\ raw \in RawInputs
    /\ nres = Pending
    /\ nres2 = Pending
    /\ CompanyIdle
    /\ ClientIdle
    /\ ServiceIdle

\* isin = self._validate_normalize_isin(isin)
Normalize ==
    /\ nres = Pending
    /\ nres' = _validate_normalize_isin(raw)
    /\ UNCHANGED <<raw, nres2, companyVars, clientVars, serviceVars>>

\* the same call on the value the first call returned
NormalizeAgain ==
    /\ nres.ok
    /\ nres2 = Pending
    /\ nres2' = _validate_normalize_isin(nres.val)
    /\ UNCHANGED <<raw, nres, companyVars, clientVars, serviceVars>>

NormNext == Normalize \/ NormalizeAgain

SpecNorm == NormInit /\ [][NormNext]_vars

----------------------------------------------------------------------------
(* Claims about the normalizer (SpecNorm) *)

C1_Blank == {" ", "TAB", "NBSP"}
C1_Letters == {"C", "H", "U", "S", "X"}
C1_Digits == {"0", "1", "2", "3", "4", "5", "6", "7", "8", "9"}

C1_Up(ch) ==
    CASE ch \in {"c", "h", "u", "s", "x"} ->
           <<[c |-> "C", h |-> "H", u |-> "U", s |-> "S", x |-> "X"][ch]>>
      [] ch = "SZ" -> <<"S", "S">>
      [] ch = "E_ACUTE" -> <<"E_ACUTE_UP">>
      [] OTHER -> <<ch>>

C1_Compat(ch) ==
    CASE ch = "FW_C" -> "C"
      [] ch = "FW_5" -> "5"
      [] ch = "NBSP" -> " "
      [] OTHER -> ch

\* whitespace and hyphens removed, letters upper-cased
RECURSIVE C1_Clean(_)
C1_Clean(s) ==
    IF s = <<>> THEN <<>>
    ELSE (IF Head(s) \in C1_Blank \cup {"-"} THEN <<>> ELSE C1_Up(Head(s)))
         \o C1_Clean(Tail(s))

\* 2 letters + 9 alphanumerics + 1 trailing digit, 12 characters in all
C1_WellFormed(s) ==
    /\ Len(s) = 12
    /\ {s[1], s[2]} \subseteq C1_Letters
    /\ {s[i] : i \in 3..11} \subseteq C1_Letters \cup C1_Digits
    /\ s[12] \in C1_Digits

C1_Expect(cleaned) ==
    IF C1_WellFormed(cleaned) THEN Returned(PyStr(cleaned)) ELSE Raised("ValueError")

\* C1 as stated: normalize returns the input with whitespace and hyphens
\* removed and letters upper-cased exactly when that cleaned string is a
\* well-formed ISIN, and fails with the invalid-identifier error otherwise.
C1_AsStated ==
    nres # Pending =>
        nres = IF raw = PyNone THEN Raised("ValueError")
               ELSE C1_Expect(C1_Clean(raw.v))

\* C1 amended: the cleaned string is taken from the NFKC-normalized input:
\* normalize returns the compatibility-normalized input with whitespace and
\* hyphens removed and letters upper-cased exactly when that string is a
\* well-formed ISIN, and fails with the invalid-identifier error otherwise.
C1_Normalize ==
    nres # Pending =>
        nres = IF raw = PyNone THEN Raised("ValueError")
               ELSE C1_Expect(C1_Clean([i \in 1..Len(raw.v) |-> C1_Compat(raw.v[i])]))

IsinCH == <<"C", "H", "0", "2", "4", "4", "7", "6", "7", "5", "8", "5">>

\* " ch0244767585 " has been normalized to "CH0244767585", and the
\* 11-character "US037833100" is among the inputs
C1_Witness ==
    /\ raw = PyStr(<<" ", "c", "h", "0", "2", "4", "4", "7", "6", "7", "5", "8", "5", " ">>)
    /\ nres = Returned(PyStr(IsinCH))
    /\ _validate_normalize_isin(
           PyStr(<<"U", "S", "0", "3", "7", "8", "3", "3", "1", "0", "0">>))
         = Raised("ValueError")

\* C2: normalize is idempotent: where normalize(x) succeeds,
\* normalize(normalize(x)) succeeds too and returns the same string.
C2_Idempotent ==
    (nres.ok /\ nres2 # Pending) => (nres2.ok /\ nres2.val = nres.val)

\* a second call has run on the result of a call that changed its input
C2_Witness ==
    /\ nres.ok /\ nres2.ok
    /\ raw # nres.val
    /\ \E i \in 1..Len(raw.v) : raw.v[i] \in AsciiLower \cup {"-", "FW_C"}


----------------------------------------------------------------------------
(* core/models.py: the Company dataclass *)

\* bool(x) of a Python value: None, "" and [] are false
Truthy(x) ==
    CASE x.t = "None" -> FALSE
      [] x.t = "text" -> x.v # ""
      [] x.t \in {"list", "str"} -> x.v # <<>>

\* x or y
PyOr(x, y) == IF Truthy(x) THEN x ELSE y

\* x and y
PyAnd(x, y) == IF Truthy(x) THEN y ELSE x

\* Company(lei, ..., description, sector_labels)
Company(ident, description, sector_labels) ==
    [lei |-> ident.lei,
     registration_status |-> ident.registration_status,
     entity_status |-> ident.entity_status,
     legal_name |-> ident.legal_name,
     city |-> ident.city,
     country |-> ident.country,
     category |-> ident.category,
     description |-> description,
     sector_labels |-> sector_labels]

\* return bool(self.sector_labels and self.description)  -- "and" for "or"
has_sector_data_and(c) == Truthy(PyAnd(c.sector_labels, c.description))

\* Company.has_sector_data
has_sector_data(c) == Truthy(PyOr(c.sector_labels, c.description))

\* Company.enrich
enrich(c, labels, description) ==
    [c EXCEPT !.sector_labels = labels, !.description = description]

\* " ,".join(label for label in self.sector_labels)
RECURSIVE Join(_, _)
Join(sep, labels) ==
    IF labels = <<>> THEN <<>>
    ELSE IF Len(labels) = 1 THEN <<labels[1]>>
    ELSE <<labels[1], sep>> \o Join(sep, Tail(labels))

\* embedding_text with the description-only test made first
embedding_text_desc_first(c) ==
    LET location == <<"located in ", c.city, ", ", c.country>>
        label_string == IF Truthy(c.sector_labels) THEN Join(" ,", c.sector_labels.v) ELSE <<>>
    IN  IF Truthy(c.description)
        THEN <<c.legal_name, " is a ", c.description.v, ", ">> \o location \o <<".">>
        ELSE IF Truthy(PyAnd(c.sector_labels, c.description))
        THEN <<c.legal_name, " is a ", c.description.v, ", ">> \o location
                 \o <<". It belongs in ">> \o label_string \o <<".">>
        ELSE IF Truthy(c.sector_labels)
        THEN <<"Company ", c.legal_name, ", ">> \o location
                 \o <<". It belongs in ">> \o label_string \o <<".">>
        ELSE <<"Risk characteristics for company ", c.legal_name, ". Located in ",
               c.city, ", ", c.country, ". Category: ", c.category, ".">>

\* Company.embedding_text
embedding_text(c) ==
    LET location == <<"located in ", c.city, ", ", c.country>>
        label_string == IF Truthy(c.sector_labels) THEN Join(" ,", c.sector_labels.v) ELSE <<>>
    IN  IF Truthy(PyAnd(c.sector_labels, c.description))
        THEN <<c.legal_name, " is a ", c.description.v, ", ">> \o location
                 \o <<". It belongs in ">> \o label_string \o <<".">>
        ELSE IF Truthy(c.description)
        THEN <<c.legal_name, " is a ", c.description.v, ", ">> \o location \o <<".">>
        ELSE IF Truthy(c.sector_labels)
        THEN <<"Company ", c.legal_name, ", ">> \o location
                 \o <<". It belongs in ">> \o label_string \o <<".">>
        ELSE <<"Risk characteristics for company ", c.legal_name, ". Located in ",
               c.city, ", ", c.country, ". Category: ", c.category, ".">>

----------------------------------------------------------------------------
(* Bounded entity states *)

MaxLabels == 2

Idents ==
    {[lei |-> "123", registration_status |-> "active", entity_status |-> "active",
      legal_name |-> "Test Co", city |-> "Zurich", country |-> "CH",
      category |-> "Finance"],
     [lei |-> "LEI_APPLE", registration_status |-> "ISSUED", entity_status |-> "ACTIVE",
      legal_name |-> "Apple Inc", city |-> "Cupertino", country |-> "US",
      category |-> "GENERAL"]}

Labels == {"Banking", "Electronics"}
LabelLists == SeqsUpTo(Labels, MaxLabels)
Descriptions == {PyText(""), PyText("Global Bank"), PyText("technology company")}

----------------------------------------------------------------------------
(* SpecCompany: a caller builds a Company, enriches it and asks for its     *)
(* embedding text, in any order.                                           *)

CompanyInit ==
    /\ \E ident \in Idents, d \in Descriptions \cup {PyNone}, ls \in LabelLists :
           company = Company(ident, d, PyList(ls))
    /\ text = Pending
    /\ raw = PyNone /\ nres = Pending /\ nres2 = Pending
    /\ ClientIdle
    /\ ServiceIdle

\* company.enrich(labels, description)
Enrich(labels, description) ==
    /\ company' = enrich(company, labels, description)
    /\ text' = Pending
    /\ UNCHANGED <<normVars, clientVars, serviceVars>>

\* company.embedding_text()
EmbeddingText ==
    /\ text' = Returned(embedding_text(company))
    /\ UNCHANGED <<company, normVars, clientVars, serviceVars>>

CompanyNext ==
    \/ \E ls \in LabelLists, d \in Descriptions : Enrich(PyList(ls), d)
    \/ EmbeddingText

SpecCompany == CompanyInit /\ [][CompanyNext]_vars

----------------------------------------------------------------------------
(* Claims about the entity (SpecCompany) *)

C4_NonEmptyText(d) == d.t # "None" /\ d.v # ""

C5_Monotonic == [][has_sector_data(company) => has_sector_data(company')]_vars

C7_Location(c) == <<"located in ", c.city, ", ", c.country>>

RECURSIVE C7_Joined(_)
C7_Joined(ls) ==
    IF Len(ls) <= 1 THEN ls ELSE <<Head(ls), " ,">> \o C7_Joined(Tail(ls))

C7_Template1(c) ==
    <<c.legal_name, " is a ", c.description.v, ", ">> \o C7_Location(c)
        \o <<". It belongs in ">> \o C7_Joined(c.sector_labels.v) \o <<".">>
C7_Template2(c) ==
    <<c.legal_name, " is a ", c.description.v, ", ">> \o C7_Location(c) \o <<".">>
C7_Template3(c) ==
    <<"Company ", c.legal_name, ", ">> \o C7_Location(c)
        \o <<". It belongs in ">> \o C7_Joined(c.sector_labels.v) \o <<".">>
C7_Fallback(c) ==
    <<"Risk characteristics for company ", c.legal_name, ". Located in ",
      c.city, ", ", c.country, ". Category: ", c.category, ".">>

C7_Expected(c) ==
    LET desc == C4_NonEmptyText(c.description)
        labs == c.sector_labels.v # <<>>
    IN  CASE desc /\ labs -> C7_Template1(c)
          [] desc /\ ~labs -> C7_Template2(c)
          [] ~desc /\ labs -> C7_Template3(c)
          [] ~desc /\ ~labs -> C7_Fallback(c)

\* C7: embedding_text returns, for every entity state, the one template its
\* description/label presence selects (both: 1, description only: 2, labels
\* only: 3, neither: the fallback with the category), and the call leaves
\* the entity as it was.
C7_EmbeddingText ==
    /\ [](text # Pending => text = Returned(C7_Expected(company)))
    /\ [][text' # Pending /\ text' # text => company' = company]_vars

\* each of the four templates has been produced
C7_Witness ==
    /\ text # Pending
    /\ company.description = PyText("technology company")
    /\ company.sector_labels = PyList(<<"Electronics", "Banking">>)
    /\ text.val = C7_Template1(company)
    /\ \E c2, c3, c4 \in {Company(i, d, PyList(ls)) :
                              i \in Idents, d \in Descriptions, ls \in LabelLists} :
          /\ embedding_text(c2) = C7_Template2(c2) /\ c2.sector_labels = PyList(<<>>)
          /\ embedding_text(c3) = C7_Template3(c3) /\ c3.description = PyText("")
          /\ embedding_text(c4) = C7_Fallback(c4) /\ c4.category = "Finance"


----------------------------------------------------------------------------
(* core/enrichment_service.py: the knowledge-base client.                  *)
(*                                                                         *)
(* A JSON object is PyDict(r), r a record that holds Absent under a key    *)
(* the object lacks.  An operator that can raise returns Returned(v) or    *)
(* Raised(exception class); the callers below pass a Raised on unchanged,  *)
(* as Python propagates an exception.                                      *)

Absent == [t |-> "absent"]
PyDict(r) == [t |-> "dict", v |-> r]
Has(d, k) == k \in DOMAIN d.v /\ d.v[k] # Absent

\* {} as the default of dict.get
EmptyDict == PyDict([value |-> Absent])

\* The operators below take the result of the expression they are applied
\* to: a Raised passes through them unchanged.

\* r.get(k, default): AttributeError unless r is a dict
Get(r, k, default) ==
    IF ~r.ok THEN r
    ELSE IF r.val.t # "dict" THEN Raised("AttributeError")
    ELSE Returned(IF Has(r.val, k) THEN r.val.v[k] ELSE default)

\* r[k] for a str key: KeyError on a dict without it, TypeError on a str,
\* a list or None
Item(r, k) ==
    IF ~r.ok THEN r
    ELSE IF r.val.t # "dict" THEN Raised("TypeError")
    ELSE IF Has(r.val, k) THEN Returned(r.val.v[k]) ELSE Raised("KeyError")

\* k in b, for a str k: the key test on a dict, TypeError on None; no str
\* or list of the bodies below contains a key name
In(k, b) ==
    IF b.t = "None" THEN Raised("TypeError")
    ELSE Returned(b.t = "dict" /\ Has(b, k))

\* the index of the last "/" of s, 0 if there is none
LastSlash(s) ==
    IF \E i \in 1..Len(s) : s[i] = "/"
    THEN CHOOSE i \in 1..Len(s) : s[i] = "/" /\ \A j \in (i + 1)..Len(s) : s[j] # "/"
    ELSE 0

\* r.split("/")[-1]: AttributeError unless r is a str
SplitLast(r) ==
    IF ~r.ok THEN r
    ELSE IF r.val.t = "text" THEN r
    ELSE IF r.val.t # "str" THEN Raised("AttributeError")
    ELSE Returned(PyStr(SubSeq(r.val.v, LastSlash(r.val.v) + 1, Len(r.val.v))))

\* {"wikidata_id": None, "description": None, "sectors": []}
EMPTY == [wikidata_id |-> PyNone, description |-> PyNone, sectors |-> PyList(<<>>)]

\* b["item"]["value"].split("/")[-1]
WikidataId(b) == SplitLast(Item(Item(Returned(b), "item"), "value"))

\* b.get("itemDescription", {}).get("value")
Description(b) == Get(Get(Returned(b), "itemDescription", EmptyDict), "value", PyNone)

\* {"label": r}
Label(r) == IF ~r.ok THEN r ELSE Returned([label |-> r.val])

\* {"label": b["industryLabel"]["value"]}
SectorOf(b) == Label(Item(Item(Returned(b), "industryLabel"), "value"))

\* one element of the comprehension in front of the rest of it: the test,
\* then the element, then the elements after it
Cons(has, this, rest) ==
    IF ~has.ok THEN has
    ELSE IF ~has.val THEN rest
    ELSE IF ~this.ok THEN this
    ELSE IF ~rest.ok THEN rest
    ELSE Returned(<<this.val>> \o rest.val)

\* [{"label": b["industryLabel"]["value"]} for b in bindings if "industryLabel" in b]
RECURSIVE Sectors(_)
Sectors(bs) ==
    IF bs = <<>> THEN Returned(<<>>)
    ELSE Cons(In("industryLabel", Head(bs)), SectorOf(Head(bs)), Sectors(Tail(bs)))

\* data.get("results", {}).get("bindings", [])
Bindings(data) == Get(Get(data, "results", EmptyDict), "bindings", PyList(<<>>))

\* the dict of lines 160-168, its three values evaluated in order
Mapped(wid, desc, secs) ==
    IF ~wid.ok THEN wid
    ELSE IF ~desc.ok THEN desc
    ELSE IF ~secs.ok THEN secs
    ELSE Returned([wikidata_id |-> wid.val, description |-> desc.val,
                   sectors |-> PyList(secs.val)])

\* lines 155-169: "if not bindings" and the mapping of the response
FromBindings(bindings) ==
    IF ~bindings.ok THEN bindings
    ELSE IF ~Truthy(bindings.val) THEN Returned(EMPTY)
    ELSE Mapped(WikidataId(bindings.val.v[1]), Description(bindings.val.v[1]),
                Sectors(bindings.val.v))

\* _query_wikidata, lines 155-169: the try block from the value (or the
\* exception) of response.json() on
ParseSingle(data) == FromBindings(Bindings(data))

\* a Python dict keyed by LEI is a function on the set of its keys
NoResults == [l \in {} |-> EMPTY]
Put(results, k, v) == [l \in DOMAIN results \cup {k} |-> IF l = k THEN v ELSE results[l]]

\* results.update(chunk_results)
Update(results, more) ==
    [l \in DOMAIN results \cup DOMAIN more |->
        IF l \in DOMAIN more THEN more[l] ELSE results[l]]

\* binding.get("lei", {}).get("value")
LeiOf(b) == Get(Get(Returned(b), "lei", EmptyDict), "value", PyNone)

\* the dict of lines 216-222, its values evaluated in order
Entry(wid, desc) ==
    IF ~wid.ok THEN wid
    ELSE IF ~desc.ok THEN desc
    ELSE Returned([wikidata_id |-> wid.val, description |-> desc.val,
                   sectors |-> PyList(<<>>)])

\* the first entry of a LEI, lines 215-222
NewEntry(b) == Entry(IF Has(b, "item") THEN WikidataId(b) ELSE Returned(PyNone), Description(b))

\* results[lei] after "if lei not in results: results[lei] = {...}"
EntryOf(results, key, b) ==
    IF key \in DOMAIN results THEN Returned(results[key]) ELSE NewEntry(b)

\* results[lei]["sectors"].append({"label": ...})
WithSector(entry, sec) ==
    IF ~entry.ok THEN entry
    ELSE IF ~sec.ok THEN sec
    ELSE Returned([entry.val EXCEPT !.sectors = PyList(entry.val.sectors.v \o <<sec.val>>)])

\* results with results[key] set to the entry
Stored(results, key, entry) ==
    IF ~entry.ok THEN entry ELSE Returned(Put(results, key, entry.val))

\* lines 212-227, lei being the value of binding.get("lei", {}).get("value")
AddBinding(results, b, lei) ==
    IF ~lei.ok THEN lei
    ELSE IF ~Truthy(lei.val) THEN Returned(results)
    ELSE Stored(results, lei.val.v,
                IF Has(b, "industryLabel")
                THEN WithSector(EntryOf(results, lei.val.v, b), SectorOf(b))
                ELSE EntryOf(results, lei.val.v, b))

\* one turn of "for binding in bindings", lines 210-227
OneBinding(results, b) ==
    IF ~results.ok THEN results ELSE AddBinding(results.val, b, LeiOf(b))

\* the loop of lines 210-227 from the results so far
RECURSIVE ForBindings(_, _)
ForBindings(results, bs) ==
    IF bs = <<>> THEN results
    ELSE ForBindings(OneBinding(results, Head(bs)), Tail(bs))

Range(s) == {s[i] : i \in DOMAIN s}

\* for lei in leis: if lei not in results: results[lei] = {...empty...}
FillMissing(results, leis) ==
    [l \in DOMAIN results \cup Range(leis) |->
        IF l \in DOMAIN results THEN results[l] ELSE EMPTY]

\* lines 229-237: the fill loop and the return
Filled(results, leis) ==
    IF ~results.ok THEN results ELSE Returned(FillMissing(results.val, leis))

\* lines 209-237 ("for binding in None" is a TypeError)
OverBindings(bindings, leis) ==
    IF ~bindings.ok THEN bindings
    ELSE IF bindings.val.t # "list" THEN Raised("TypeError")
    ELSE Filled(ForBindings(Returned(NoResults), bindings.val.v), leis)

\* _query_wikidata_batch, lines 207-237: the try block from the value (or
\* the exception) of response.json() on
ParseBatch(data, leis) == OverBindings(Bindings(data), leis)

\* {lei: {...empty...} for lei in leis}
AllEmpty(leis) == [l \in Range(leis) |-> EMPTY]


----------------------------------------------------------------------------
(* The HTTP session (_init_wikidata_session) and the two request handlers  *)

\* Retry(total=3, backoff_factor=1.0, status_forcelist=[429, 500, 502, 503,
\* 504], allowed_methods=["GET"]).  urllib3 counts RETRIES in total: every
\* failed attempt (a connection error, a timeout, or a response whose
\* status is in status_forcelist, the method being GET) takes one off, and
\* the request gives up when the count would fall below zero.  requests
\* turns the give-up into a RequestException (RetryError, ConnectTimeout or
\* ConnectionError).
RETRY_TOTAL_5 == 3 + 2
RETRY_TOTAL == 3
STATUS_FORCELIST == {429, 500, 502, 503, 504}

TransportErrors == {"ConnectTimeout", "ReadTimeout", "ConnectionError"}

\* every class the handlers name in "except (requests.RequestException, KeyError)"
Caught == {"ConnectTimeout", "ReadTimeout", "ConnectionError", "RetryError",
           "HTTPError", "JSONDecodeError", "KeyError"}

\* Retry.is_retry / the error branch of urlopen: is this attempt retried
\* while retries are left
Retryable(o) ==
    \/ o.kind = "error"
    \/ o.kind = "response" /\ o.status \in STATUS_FORCELIST

\* what session.get hands the handler when an attempt ends the request
Final(o) ==
    IF o.kind = "error"
    THEN [kind |-> "raise", exc |-> IF o.exc = "ReadTimeout" THEN "ConnectionError" ELSE o.exc]
    ELSE IF o.status \in STATUS_FORCELIST
    THEN [kind |-> "raise", exc |-> "RetryError"]
    ELSE [kind |-> "response", status |-> o.status, body |-> o.body]

InvalidJson == [t |-> "invalid"]

\* response.raise_for_status(); data = response.json(): the data, or the
\* exception session.get, raise_for_status or json raised
Fetched(final) ==
    IF final.kind = "raise" THEN Raised(final.exc)
    ELSE IF final.status >= 400 THEN Raised("HTTPError")
    ELSE IF final.body = InvalidJson THEN Raised("JSONDecodeError")
    ELSE Returned(final.body)

\* try: ... except (requests.RequestException, KeyError): return fallback
TryExcept(tried, fallback) ==
    IF tried.ok \/ tried.err \notin Caught THEN tried ELSE Returned(fallback)

\* EnrichmentService._query_wikidata, given how session.get ended
_query_wikidata(lei, final) == TryExcept(ParseSingle(Fetched(final)), EMPTY)

\* EnrichmentService._query_wikidata_batch for a non-empty list, given how
\* session.get ended
_query_wikidata_batch(leis, final) ==
    TryExcept(ParseBatch(Fetched(final), leis), AllEmpty(leis))


----------------------------------------------------------------------------
(* Bounded requests and responses of the knowledge base *)

MaxLeis == 2
MaxBindings == 2

KbLeis == {"L1", "L2"}

\* the --batch-size values: any int parses; 30 is the default
BATCH_SIZE_DEFAULT == 30
ChunkSizes == {-1, 0, 1, 2, BATCH_SIZE_DEFAULT}

Val(x) == PyDict([value |-> x])
Uri(q) == PyStr(<<"http:", "/", "/", "www.wikidata.org", "/", "entity", "/", q>>)
Binding(lei, item, desc, label) ==
    PyDict([lei |-> lei, item |-> item, itemDescription |-> desc, industryLabel |-> label])

\* rows of a SPARQL answer: two industries of L1; L2 with an item and
\* nothing else; L2 without an item; a row that names no LEI; a row whose
\* item is a bare string; a row whose industryLabel has no value
BindingPool ==
    {Binding(Val(PyText("L1")), Val(Uri("Q312")), Val(PyText("technology company")),
             Val(PyText("Electronics"))),
     Binding(Val(PyText("L1")), Val(Uri("Q312")), Val(PyText("technology company")),
             Val(PyText("Banking"))),
     Binding(Val(PyText("L2")), Val(Uri("Q95")), Absent, Absent),
     Binding(Val(PyText("L2")), Absent, Absent, Val(PyText("Banking"))),
     Binding(Absent, Val(Uri("Q312")), Val(PyText("technology company")), Absent),
     Binding(Val(PyText("L1")), PyText("Q312"), Absent, Absent),
     Binding(Val(PyText("L1")), Val(Uri("Q312")), Absent, PyDict([value |-> Absent]))}

Body(bindings) == PyDict([results |-> PyDict([bindings |-> bindings])])

\* answers of the expected shape, and bodies that are JSON of another
\* shape or no JSON at all
Bodies200 ==
    {Body(PyList(bs)) : bs \in SeqsUpTo(BindingPool, MaxBindings)}
    \cup {Body(PyNone), Body(Absent), PyDict([results |-> PyNone]),
          PyDict([results |-> Absent]), PyList(<<>>), InvalidJson}

\* how one HTTP attempt can end
Attempts ==
    {[kind |-> "error", exc |-> e] : e \in TransportErrors}
    \cup {[kind |-> "response", status |-> s, body |-> NoBody] :
             s \in STATUS_FORCELIST \cup {400, 404}}
    \cup {[kind |-> "response", status |-> 200, body |-> b] : b \in Bodies200}

----------------------------------------------------------------------------
(* SpecClient: client calls, one HTTP attempt per step *)

ClientInit ==
    /\ ClientIdle
    /\ ServiceIdle
    /\ CompanyIdle
    /\ raw = PyNone /\ nres = Pending /\ nres2 = Pending

NewReq(leis) ==
    [active |-> TRUE, total |-> RETRY_TOTAL, attempts |-> 0, last |-> [kind |-> "none"],
     leis |-> leis, body |-> NoBody]

Min(a, b) == IF a <= b THEN a ELSE b

\* leis[i : i + chunk_size]
Chunk(leis, i, chunk_size) == SubSeq(leis, i + 1, Min(i + chunk_size, Len(leis)))

\* self._query_wikidata(lei): the request is sent
QuerySingle(lei) ==
    /\ call.state # "running"
    /\ call' = [state |-> "running", kind |-> "single", leis |-> <<lei>>,
                chunk_size |-> 1, i |-> 0, results |-> NoResults]
    /\ req' = NewReq(<<lei>>)
    /\ cres' = Pending
    /\ UNCHANGED <<normVars, companyVars, serviceVars>>

\* range(0, len(leis), chunk_size) yields nothing (or raises, for a zero step)
NoChunk(leis, chunk_size) == chunk_size <= 0 \/ leis = <<>>

\* self._chunked_query_wikidata(leis, chunk_size): range(0, len(leis),
\* chunk_size) raises ValueError for a zero step and is empty for a
\* negative one or an empty list; otherwise the first chunk is sent
QueryChunked(leis, chunk_size) ==
    /\ call.state # "running"
    /\ call' = [state |-> IF NoChunk(leis, chunk_size) THEN "done" ELSE "running",
                kind |-> "chunked", leis |-> leis, chunk_size |-> chunk_size, i |-> 0,
                results |-> NoResults]
    /\ req' = IF NoChunk(leis, chunk_size) THEN NoReq
              ELSE NewReq(Chunk(leis, 0, chunk_size))
    /\ cres' = IF chunk_size = 0 THEN Raised("ValueError")
               ELSE IF NoChunk(leis, chunk_size) THEN Returned(NoResults)
               ELSE Pending
    /\ UNCHANGED <<normVars, companyVars, serviceVars>>

\* self._query_wikidata_batch(leis), called directly: {} for an empty list
QueryBatch(leis) ==
    /\ call.state # "running"
    /\ call' = [state |-> IF leis = <<>> THEN "done" ELSE "running", kind |-> "batch",
                leis |-> leis, chunk_size |-> Len(leis), i |-> 0, results |-> NoResults]
    /\ req' = IF leis = <<>> THEN NoReq ELSE NewReq(leis)
    /\ cres' = IF leis = <<>> THEN Returned(NoResults) ELSE Pending
    /\ UNCHANGED <<normVars, companyVars, serviceVars>>

\* how the attempt ended, without the body: the status or the error
Seen(o) ==
    IF o.kind = "error" THEN [kind |-> "error", exc |-> o.exc]
    ELSE [kind |-> "response", status |-> o.status]

\* the handler whose request has ended returns or raises
HandlerResult(final) ==
    IF call.kind = "single" THEN _query_wikidata(call.leis[1], final)
    ELSE _query_wikidata_batch(req.leis, final)

\* the loop of _chunked_query_wikidata has a chunk left after this one
MoreChunks == call.kind = "chunked" /\ call.i + call.chunk_size < Len(call.leis)

\* the body of the response that ended the request, NoBody after an error
Received(o) == IF o.kind = "response" THEN o.body ELSE NoBody

\* the call goes on with what its handler returned or raised: an exception
\* ends the call; a chunk's results are merged, and the next chunk, if
\* any, is sent; body is what the request that ended had received
Resume(out, seen, made, body) ==
    /\ cres' = IF ~out.ok \/ call.kind # "chunked" THEN out
               ELSE IF MoreChunks THEN Pending
               ELSE Returned(Update(call.results, out.val))
    /\ call' = IF ~out.ok \/ call.kind # "chunked" THEN [call EXCEPT !.state = "done"]
               ELSE IF MoreChunks
               THEN [call EXCEPT !.i = call.i + call.chunk_size,
                                 !.results = Update(call.results, out.val)]
               ELSE [call EXCEPT !.state = "done",
                                 !.results = Update(call.results, out.val)]
    /\ req' = IF out.ok /\ MoreChunks
              THEN NewReq(Chunk(call.leis, call.i + call.chunk_size, call.chunk_size))
              ELSE [req EXCEPT !.active = FALSE, !.attempts = made, !.last = seen,
                               !.body = body]

\* one HTTP attempt of session.get ends as o: a retryable failure is
\* retried (after the backoff sleep) while retries are left; anything else
\* ends the request and the handler goes on
HttpAttempt(o) ==
    /\ req.active
    /\ IF Retryable(o) /\ req.total - 1 >= 0
       THEN /\ req' = [req EXCEPT !.total = req.total - 1,
                                  !.attempts = req.attempts + 1, !.last = Seen(o)]
            /\ UNCHANGED <<call, cres>>
       ELSE Resume(HandlerResult(Final(o)), Seen(o), req.attempts + 1, Received(o))
    /\ UNCHANGED <<normVars, companyVars, serviceVars>>

ClientNext ==
    \/ \E lei \in KbLeis : QuerySingle(lei)
    \/ \E leis \in SeqsUpTo(KbLeis, MaxLeis), c \in ChunkSizes : QueryChunked(leis, c)
    \/ \E leis \in SeqsUpTo(KbLeis, MaxLeis) : QueryBatch(leis)
    \/ \E o \in Attempts : HttpAttempt(o)

SpecClient == ClientInit /\ [][ClientNext]_vars

----------------------------------------------------------------------------
(* Claims about the knowledge-base client (SpecClient) *)

\* a batched call (chunked, or one batch) has returned its map
C8_Returned == call.kind \in {"chunked", "batch"} /\ call.state = "done" /\ cres.ok

\* C8: the map a batched query returns has every requested LEI as a key,
\* and a LEI the responses did not name maps to the empty result
C8_EveryLei ==
    C8_Returned => \A l \in Range(call.leis) : l \in DOMAIN cres.val

\* C9: no client call raises to its caller, whatever the HTTP outcome, the
\* response body or the chunk size
C9_NeverRaises == cres = Pending \/ cres.ok

\* the attempt before this state was retried
C10_Retried == req.active /\ req.attempts > 0

\* the request has ended with the attempt before this state
C10_Ended == ~req.active /\ req.attempts > 0

C10_RetryStatus == {429, 500, 502, 503, 504}

\* the last attempt ended with a response whose status is in the list
C10_OnStatus == req.last.kind = "response" /\ req.last.status \in C10_RetryStatus

\* the call has given the empty result for every LEI of the request
C10_GaveUp ==
    CASE call.kind = "single" -> cres = Returned(EMPTY)
      [] call.kind = "batch" -> cres = Returned(AllEmpty(call.leis))
      [] OTHER -> \A l \in Range(req.leis) : call.results[l] = EMPTY

----------------------------------------------------------------------------
(* The company repository.  Two adapters are modelled: "sqlite" is         *)
(* SqliteCompanyRepository as written; "protocol" is an implementation of  *)
(* the CompanyRepository protocol of core/interfaces.py that holds the     *)
(* entities with their enrichment fields, returns None for a miss and      *)
(* stores what enrich_company is given.  A row of lei_metadata holds the   *)
(* Company fields and the columns wikidata_check and timestamp.            *)

IsinCH0 == <<"C", "H", "0", "2", "4", "4", "7", "6", "7", "5", "8", "0">>
IsinUS == <<"U", "S", "0", "2", "4", "4", "7", "6", "7", "5", "8", "5">>
IsinUS0 == <<"U", "S", "0", "2", "4", "4", "7", "6", "7", "5", "8", "0">>

\* the rows of isin_lei_map in table order: two ISINs of L1, one of L2;
\* IsinUS0 has no row
IsinTable == <<IsinCH, IsinCH0, IsinUS>>
isin_lei_map == [k \in {IsinCH, IsinCH0, IsinUS} |-> IF k = IsinUS THEN "L2" ELSE "L1"]

NoRow == [lei |-> "none"]

\* the LEI the mapping holds for a str, "none" if it holds none
MappedLei(isin) ==
    IF isin.t = "str" /\ isin.v \in DOMAIN isin_lei_map THEN isin_lei_map[isin.v]
    ELSE "none"

\* fetchone() of the SELECT ... WHERE lei = ?
RowFor(rows, lei) == IF lei \in DOMAIN rows THEN rows[lei] ELSE NoRow

\* the columns of lei_metadata that Company has no field for
ENRICHMENT_COLUMNS == {"wikidata_check", "timestamp"}

\* a row of lei_metadata: the Company fields and the two columns
Row(c, wikidata_check, timestamp) ==
    c @@ [wikidata_check |-> wikidata_check, timestamp |-> timestamp]

\* cls(lei=row["lei"], ..., sector_labels=labels)
CompanyOf(row) == [k \in DOMAIN row \ ENRICHMENT_COLUMNS |-> row[k]]

\* Company.from_row(row): the SELECT of the sqlite adapter names the seven
\* COMPANY_COLUMNS only, so row["sector_labels"] raises IndexError there
from_row(r, row) ==
    IF r.adapter = "sqlite" THEN Raised("IndexError") ELSE Returned(CompanyOf(row))

\* a miss answered with None by every adapter
NotFound_none(r) == Returned(PyNone)

\* no row: the sqlite adapter raises ValueError, the protocol says None
NotFound(r) == IF r.adapter = "sqlite" THEN Raised("ValueError") ELSE Returned(PyNone)

\* company_repo.get_by_isin(isin)
get_by_isin(r, isin) ==
    IF RowFor(r.rows, MappedLei(isin)) = NoRow THEN NotFound(r)
    ELSE from_row(r, RowFor(r.rows, MappedLei(isin)))

\* company_repo.get_by_lei(lei)
get_by_lei(r, lei) ==
    IF RowFor(r.rows, lei) = NoRow THEN NotFound(r) ELSE from_row(r, RowFor(r.rows, lei))

\* the ISINs of the JOIN ... WHERE isin IN (...), in table order
Joined(r, isins) ==
    LET matches(k) == PyStr(k) \in Range(isins) /\ RowFor(r.rows, isin_lei_map[k]) # NoRow
    IN  SelectSeq(IsinTable, matches)

\* [Company.from_row(row) for row in company_rows]
FromRows(r, keys) ==
    IF r.adapter = "sqlite" /\ keys # <<>> THEN Raised("IndexError")
    ELSE Returned(PyList([i \in 1..Len(keys) |->
                              CompanyOf(r.rows[isin_lei_map[keys[i]]])]))

\* company_repo.get_by_isins(isins)
get_by_isins(r, isins) ==
    IF isins = <<>> THEN Returned(PyList(<<>>)) ELSE FromRows(r, Joined(r, isins))

\* the write timestamp of enrich_company
NOW == PyText("now")

\* an enrich_company without its WHERE lei = ?: every row is written
enrich_company_every(r, lei, description, labels) ==
    IF r.adapter = "sqlite" \/ RowFor(r.rows, lei) = NoRow THEN Returned(r)
    ELSE Returned([r EXCEPT !.rows =
                      [l \in DOMAIN @ |->
                          IF @[l] = NoRow THEN NoRow
                          ELSE Row(enrich(CompanyOf(@[l]), labels, description), 1, NOW)]])

\* an enrich_company that adds the labels to those of the row
enrich_company_append(r, lei, description, labels) ==
    IF r.adapter = "sqlite" \/ RowFor(r.rows, lei) = NoRow THEN Returned(r)
    ELSE Returned([r EXCEPT !.rows[lei] =
                      Row(enrich(CompanyOf(@), PyList(@.sector_labels.v \o labels.v),
                                 description), 1, NOW)])

\* company_repo.enrich_company(lei, description, labels): the sqlite
\* adapter inherits the body "..." of the protocol, which stores nothing;
\* the protocol adapter upserts the two fields, the flag and the timestamp
\* of the row of lei
enrich_company(r, lei, description, labels) ==
    IF r.adapter = "sqlite" \/ RowFor(r.rows, lei) = NoRow THEN Returned(r)
    ELSE Returned([r EXCEPT !.rows[lei] =
                      Row(enrich(CompanyOf(@), labels, description), 1, NOW)])

\* the row save_wikidata_information writes to wikidata_cache, with the
\* rows it writes to company_sectors
CacheRow(d) ==
    [wikidata_id |-> d.wikidata_id, description |-> d.description,
     last_updated |-> NOW, sectors |-> d.sectors]

\* SqliteCompanyRepository.save_wikidata_information: INSERT OR REPLACE the
\* cache row of lei, replace its company_sectors rows, commit
save_wikidata_information(cache, lei, d) ==
    [l \in DOMAIN cache \cup {lei} |-> IF l = lei THEN CacheRow(d) ELSE cache[l]]

\* SqliteCompanyRepository.get_cached_wikidata
get_cached_wikidata(cache, lei) == IF lei \in DOMAIN cache THEN cache[lei] ELSE PyNone

\* the LEIs that have a row, in table order
StoredLeis(rows) ==
    LET stored(l) == RowFor(rows, l) # NoRow IN SelectSeq(<<"L1", "L2">>, stored)

\* company_repo.list_all(): the sqlite adapter raises NotImplementedError;
\* the protocol adapter returns the companies of the rows, by LEI
list_all(r) ==
    IF r.adapter = "sqlite" THEN Raised("NotImplementedError")
    ELSE Returned(PyList([i \in 1..Len(StoredLeis(r.rows)) |->
                              CompanyOf(r.rows[StoredLeis(r.rows)[i]])]))

----------------------------------------------------------------------------
(* EnrichmentService: the orchestration over the repository.  A call's     *)
(* outcome is the record St: what it returned or raised, the repository    *)
(* after it, what the repository had loaded for it, and the trace of the   *)
(* store, knowledge-base and index operations it performed, in order, each  *)
(* knowledge-base request with what the client answered.                   *)

St(result, r, loaded, trace) ==
    [result |-> result, repo |-> r, loaded |-> loaded, trace |-> trace]

StoreOp(op, arg) == [on |-> "store", op |-> op, arg |-> arg]
KbReq(leis, answer) == [on |-> "kb", leis |-> leis, answer |-> answer]
IndexOp(op, arg) == [on |-> "index", op |-> op, arg |-> arg]

\* wikidata_data["description"] or ""
DescriptionOf(data) == PyOr(data.description, PyText(""))

\* [s["label"] for s in wikidata_data["sectors"]]
LabelsOf(data) == PyList([i \in 1..Len(data.sectors.v) |-> data.sectors.v[i].label.v])

\* wikidata_results.get(company.lei, {})
ResultFor(results, lei) ==
    IF lei \in DOMAIN results THEN results[lei] ELSE [wikidata_id |-> PyNone]

\* the block without its enrich_company call
Apply_unpersisted(r, c, data) ==
    IF Truthy(data.wikidata_id)
    THEN [company |-> enrich(c, LabelsOf(data), DescriptionOf(data)),
          stored |-> Returned(r), wrote |-> FALSE]
    ELSE [company |-> c, stored |-> Returned(r), wrote |-> FALSE]

\* "if wikidata_data.get("wikidata_id"):" and its body: the company after
\* it, the repository after it (or what enrich_company raised), and whether
\* enrich_company was called
Apply(r, c, data) ==
    IF Truthy(data.wikidata_id)
    THEN [company |-> enrich(c, LabelsOf(data), DescriptionOf(data)),
          stored |-> enrich_company(r, c.lei, DescriptionOf(data), LabelsOf(data)),
          wrote |-> TRUE]
    ELSE [company |-> c, stored |-> Returned(r), wrote |-> FALSE]

\* the trace after that block
Wrote(trace, ap) == IF ap.wrote THEN Append(trace, StoreOp("enrich_company", ap.company.lei)) ELSE trace

\* lines 55-62: the block applied, then "return company"
Applied(st, ap) ==
    IF ~ap.stored.ok THEN St(ap.stored, st.repo, st.loaded, Wrote(st.trace, ap))
    ELSE St(Returned(ap.company), ap.stored.val, st.loaded, Wrote(st.trace, ap))

\* lines 53-62, answer being what self._query_wikidata returned or raised
AfterQuery(st, c, answer) ==
    IF ~answer.ok
    THEN St(answer, st.repo, st.loaded, Append(st.trace, KbReq(<<c.lei>>, answer)))
    ELSE Applied(St(st.result, st.repo, st.loaded,
                    Append(st.trace, KbReq(<<c.lei>>, answer))),
                 Apply(st.repo, c, answer.val))

\* the has_sector_data test lost: every loaded company is queried
EnsureLoaded_requery(r, loaded, final, trace) ==
    IF ~loaded.ok \/ loaded.val = PyNone THEN St(loaded, r, loaded, trace)
    ELSE AfterQuery(St(loaded, r, loaded, trace),
                    loaded.val, _query_wikidata(loaded.val.lei, final))

\* lines 47-62 (and 110-125), loaded being what the repository returned or
\* raised and final how session.get ends if the knowledge base is asked
EnsureLoaded(r, loaded, final, trace) ==
    IF ~loaded.ok \/ loaded.val = PyNone THEN St(loaded, r, loaded, trace)
    ELSE IF has_sector_data(loaded.val) THEN St(loaded, r, loaded, trace)
    ELSE AfterQuery(St(loaded, r, loaded, trace),
                    loaded.val, _query_wikidata(loaded.val.lei, final))

\* EnrichmentService._ensure_enriched_company_by_isin
_ensure_enriched_company_by_isin(r, isin, final) ==
    EnsureLoaded(r, get_by_isin(r, isin), final, <<StoreOp("get_by_isin", isin)>>)

\* EnrichmentService._ensure_enriched_company_by_lei
_ensure_enriched_company_by_lei(r, lei, final) ==
    EnsureLoaded(r, get_by_lei(r, lei), final, <<StoreOp("get_by_lei", lei)>>)

\* what _chunked_query_wikidata has so far: the merged results (or the
\* exception of a chunk) and the requests sent
ChunkOut(results, reqs) == [results |-> results, reqs |-> reqs]

\* chunk_results = self._query_wikidata_batch(chunk); results.update(...)
Merge(acc, chunk, out) ==
    ChunkOut(IF out.ok THEN Returned(Update(acc.results.val, out.val)) ELSE out,
             Append(acc.reqs, KbReq(chunk, out)))

\* the loop of _chunked_query_wikidata from offset i, finals[n] being how
\* the session.get of the n-th chunk ends
RECURSIVE ChunkedFrom(_, _, _, _, _)
ChunkedFrom(acc, leis, chunk_size, i, finals) ==
    IF ~acc.results.ok \/ i >= Len(leis) THEN acc
    ELSE ChunkedFrom(Merge(acc, Chunk(leis, i, chunk_size),
                           _query_wikidata_batch(Chunk(leis, i, chunk_size),
                                                 finals[(i \div chunk_size) + 1])),
                     leis, chunk_size, i + chunk_size, finals)

\* EnrichmentService._chunked_query_wikidata
_chunked_query_wikidata(leis, chunk_size, finals) ==
    IF chunk_size = 0 THEN ChunkOut(Raised("ValueError"), <<>>)
    ELSE IF chunk_size < 0 THEN ChunkOut(Returned(NoResults), <<>>)
    ELSE ChunkedFrom(ChunkOut(Returned(NoResults), <<>>), leis, chunk_size, 0, finals)

\* the company joins companies_needing_enrichment
Needs(c) == c # PyNone /\ ~has_sector_data(c)

\* companies_needing_enrichment_indices
NeedIdx(cs) ==
    LET needs(i) == Needs(cs[i]) IN SelectSeq([i \in 1..Len(cs) |-> i], needs)

\* leis_to_query
NeedLeis(cs) == [j \in 1..Len(NeedIdx(cs)) |-> cs[NeedIdx(cs)[j]].lei]

\* lines 96-103 for the company at idx
EnrichedAt(st, idx, ap) ==
    IF ~ap.stored.ok THEN St(ap.stored, st.repo, st.loaded, Wrote(st.trace, ap))
    ELSE St(Returned(PyList([st.result.val.v EXCEPT ![idx] = ap.company])),
            ap.stored.val, st.loaded, Wrote(st.trace, ap))

\* the loop of lines 93-103 from the j-th company needing enrichment
RECURSIVE ApplyFrom(_, _, _, _)
ApplyFrom(st, idxs, results, j) ==
    IF ~st.result.ok \/ j > Len(idxs) THEN st
    ELSE ApplyFrom(EnrichedAt(st, idxs[j],
                       Apply(st.repo, st.result.val.v[idxs[j]],
                             ResultFor(results, st.result.val.v[idxs[j]].lei))),
                   idxs, results, j + 1)

\* lines 91-105, chunked being the outcome of _chunked_query_wikidata
AfterChunked(st, idxs, chunked) ==
    IF ~chunked.results.ok
    THEN St(chunked.results, st.repo, st.loaded, st.trace \o chunked.reqs)
    ELSE ApplyFrom(St(st.result, st.repo, st.loaded, st.trace \o chunked.reqs),
                   idxs, chunked.results.val, 1)

\* lines 69-105, companies being what get_by_isins returned or raised
Partitioned(r, companies, chunk_size, finals, trace) ==
    IF ~companies.ok THEN St(companies, r, companies, trace)
    ELSE IF NeedIdx(companies.val.v) = <<>> THEN St(companies, r, companies, trace)
    ELSE AfterChunked(St(companies, r, companies, trace), NeedIdx(companies.val.v),
                      _chunked_query_wikidata(NeedLeis(companies.val.v), chunk_size, finals))

\* EnrichmentService._ensure_enriched_company_by_isins
_ensure_enriched_company_by_isins(r, isins, chunk_size, finals) ==
    Partitioned(r, get_by_isins(r, isins), chunk_size, finals,
                <<StoreOp("get_by_isins", isins)>>)

----------------------------------------------------------------------------
(* MatchingService.  Its repository argument r carries the vector index    *)
(* as r.index.  find_isin is not defined in the sources: it is modelled as *)
(* the resolve-and-enrich step of the design, the enrichment service's     *)
(* lookup by ISIN.  Company.validate is not defined either and is modelled *)
(* as accepting every company.                                             *)

find_isin(r, isin, final) == _ensure_enriched_company_by_isin(r, isin, final)

validate(c) == TRUE

IsList(x) == "t" \in DOMAIN x /\ x.t = "list"

\* ChromaVectorRepository.upsert_embedding(items): "for item in items"
\* raises TypeError unless items is a list
upsert_embedding(ix, items) ==
    IF ~IsList(items) THEN Raised("TypeError")
    ELSE Returned([l \in DOMAIN ix \cup {c.lei : c \in Range(items.v)} |->
                      IF \E c \in Range(items.v) : c.lei = l
                      THEN embedding_text(CHOOSE c \in Range(items.v) : c.lei = l)
                      ELSE ix[l]])

\* one turn of [self.company_repo.get_by_lei(lei) for lei in leis]
Hydrated(st, lei, c) ==
    St(IF c.ok THEN Returned(Append(st.result.val, c.val)) ELSE c,
       st.repo, st.loaded, Append(st.trace, StoreOp("get_by_lei", lei)))

RECURSIVE Hydrate(_, _, _)
Hydrate(st, leis, j) ==
    IF ~st.result.ok \/ j > Len(leis) THEN st
    ELSE Hydrate(Hydrated(st, leis[j], get_by_lei(st.repo, leis[j])), leis, j + 1)

\* results["distances"][0] for the ids the collection returns, nearest
\* first: the distance of an id is its rank
Distances(hits) == [i \in 1..Len(hits) |-> i]

\* ChromaVectorRepository.retrieve_matches(item, k), hits being the ids of
\* the Min(k, count) nearest documents: the query and its answer
retrieve_matches(item, k, hits) ==
    [query_texts |-> embedding_text(item), n_results |-> k,
     ids |-> hits, distances |-> Distances(hits)]

\* return companies, weights
WithWeights(st, hits) ==
    IF ~st.result.ok THEN st
    ELSE St(Returned([companies |-> PyList(st.result.val),
                      weights |-> PyList(Distances(hits))]),
            st.repo, st.loaded, st.trace)

\* find_matches, lines 67-69, found being the outcome of find_isin and hits
\* the LEIs the index returns: item.embedding_text() raises AttributeError
\* on None
Retrieved(found, k, hits) ==
    IF ~found.result.ok THEN found
    ELSE IF found.result.val = PyNone
    THEN St(Raised("AttributeError"), found.repo, found.loaded, found.trace)
    ELSE WithWeights(Hydrate(St(Returned(<<>>), found.repo, found.loaded,
                                Append(found.trace,
                                       IndexOp("query", retrieve_matches(
                                                   found.result.val, k, hits)))),
                             hits, 1),
                     hits)

\* find_matches, lines 66-69, isin being what the normalizer returned or
\* raised
FindFrom(r, isin, k, final, hits) ==
    IF ~isin.ok THEN St(isin, r, Pending, <<>>)
    ELSE Retrieved(find_isin(r, isin.val, final), k, hits)

\* find_matches without line 65: the argument goes to the lookup as given
find_matches_unvalidated(r, isin, k, final, hits) ==
    Retrieved(find_isin(r, isin, final), k, hits)

\* MatchingService.find_matches
find_matches(r, isin, k, final, hits) ==
    FindFrom(r, _validate_normalize_isin(isin), k, final, hits)

\* self.vector_repo.upsert_embedding(company) has returned or raised
UpsertDone(found, up) ==
    IF ~up.ok THEN St(up, found.repo, found.loaded, found.trace)
    ELSE St(Returned(PyNone), [found.repo EXCEPT !.index = up.val], found.loaded,
            Append(found.trace, IndexOp("upsert", DOMAIN up.val)))

\* _insert_embedding, lines 89-92: None.validate() raises AttributeError
Upserted(found) ==
    IF ~found.result.ok THEN found
    ELSE IF found.result.val = PyNone
    THEN St(Raised("AttributeError"), found.repo, found.loaded, found.trace)
    ELSE IF ~validate(found.result.val)
    THEN St(Raised("NotImplementedError"), found.repo, found.loaded, found.trace)
    ELSE UpsertDone(found, upsert_embedding(found.repo.index, found.result.val))

\* _insert_embedding, lines 87-92
InsertFrom(r, isin, final) ==
    IF ~isin.ok THEN St(isin, r, Pending, <<>>)
    ELSE Upserted(find_isin(r, isin.val, final))

\* MatchingService._insert_embedding
_insert_embedding(r, isin, final) == InsertFrom(r, _validate_normalize_isin(isin), final)

\* MatchingService.insert_embedding: _insert_embeddings raises
\* NotImplementedError
insert_embedding(r, isins, final) ==
    IF IsList(isins) THEN St(Raised("NotImplementedError"), r, Pending, <<>>)
    ELSE _insert_embedding(r, isins, final)

----------------------------------------------------------------------------
(* Bounded stores, arguments and knowledge-base answers of the services *)

MaxIsins == 2
MaxK == 2

StoreIdent(lei) ==
    [lei |-> lei, registration_status |-> "ISSUED", entity_status |-> "ACTIVE",
     legal_name |-> IF lei = "L1" THEN "Apple Inc" ELSE "Test Co",
     city |-> IF lei = "L1" THEN "Cupertino" ELSE "Zurich",
     country |-> IF lei = "L1" THEN "US" ELSE "CH",
     category |-> IF lei = "L1" THEN "GENERAL" ELSE "Finance"]

\* L1 has no row, a row never enriched, or an enriched row; L2 has a row
StoreRows(lei) ==
    (IF lei = "L1" THEN {NoRow} ELSE {})
    \cup {Row(Company(StoreIdent(lei), PyText(""), PyList(<<>>)), 0, PyNone),
          Row(Company(StoreIdent(lei), PyText("Global Bank"), PyList(<<"Banking">>)),
              1, NOW)}

\* the index is empty, or holds L1 and a LEI the store has no row of
Indexes ==
    {<<>>,
     [l \in {"L1", "L9"} |-> <<"Company ", l>>]}

Adapters == {"sqlite", "protocol"}
BatchSizes == {-1, 0, 1, BATCH_SIZE_DEFAULT}

IsinArgs == {PyStr(IsinCH), PyStr(IsinCH0), PyStr(IsinUS), PyStr(IsinUS0)}
IsinLists == SeqsUpTo(IsinArgs, MaxIsins)

\* what find_matches and insert_embedding are given: " ch0244767585 ",
\* "us-024476758-5", "US0244767580", and None and "US037833100", which the
\* normalizer rejects
ServiceRaws ==
    {PyStr(<<" ", "c", "h", "0", "2", "4", "4", "7", "6", "7", "5", "8", "5", " ">>),
     PyStr(<<"u", "s", "-", "0", "2", "4", "4", "7", "6", "7", "5", "8", "-", "5">>),
     PyStr(IsinUS0),
     PyNone,
     PyStr(<<"U", "S", "0", "3", "7", "8", "3", "3", "1", "0", "0">>)}

\* every order in which the index can return its Min(k, count) nearest
Hits(ix, k) ==
    {h \in SeqsUpTo(DOMAIN ix, Min(k, Cardinality(DOMAIN ix))) :
        /\ Len(h) = Min(k, Cardinality(DOMAIN ix))
        /\ \A i, j \in 1..Len(h) : i # j => h[i] # h[j]}

\* what enrich_company is given directly: a description with one label,
\* labels alone, and nothing
Enrichments ==
    {[description |-> PyText("Global Bank"), labels |-> PyList(<<"Banking">>)],
     [description |-> PyText(""), labels |-> PyList(<<"Electronics", "Banking">>)],
     [description |-> PyText(""), labels |-> PyList(<<>>)]}

\* what query_wikidata of infrastructure/utils.py answers: an item with
\* one sector, and nothing found
WikidataDicts ==
    {[wikidata_id |-> PyText("Q312"), description |-> PyText("technology company"),
      sectors |-> <<[label |-> "Electronics", qid |-> "Q11650"]>>],
     [wikidata_id |-> PyNone, description |-> PyNone, sectors |-> <<>>]}

\* how a request of a service call ends: retries exhausted on 503; an
\* answer with two industries of L1 and the item of L2; one without
\* bindings; one whose "results" is null
KbFinals ==
    {Final([kind |-> "response", status |-> 503, body |-> NoBody]),
     Final([kind |-> "response", status |-> 200, body |->
        Body(PyList(<<Binding(Val(PyText("L1")), Val(Uri("Q312")),
                              Val(PyText("technology company")), Val(PyText("Electronics"))),
                      Binding(Val(PyText("L1")), Val(Uri("Q312")),
                              Val(PyText("technology company")), Val(PyText("Banking"))),
                      Binding(Val(PyText("L2")), Val(Uri("Q95")), Absent, Absent)>>))]),
     Final([kind |-> "response", status |-> 200, body |-> Body(PyList(<<>>))]),
     Final([kind |-> "response", status |-> 200, body |-> PyDict([results |-> PyNone])])}

----------------------------------------------------------------------------
(* SpecService: one call of a service per step *)

ServiceInit ==
    /\ service \in [adapter : Adapters, batch_size : BatchSizes]
    /\ lei_metadata \in {[l \in KbLeis |-> IF l = "L1" THEN r1 ELSE r2] :
                            r1 \in StoreRows("L1"), r2 \in StoreRows("L2")}
    /\ index \in Indexes
    /\ wikidata_cache = <<>>
    /\ last = NoLast
    /\ race = NoRace
    /\ raw = PyNone /\ nres = Pending /\ nres2 = Pending
    /\ CompanyIdle
    /\ ClientIdle

\* the repository and the index as the services hold them
Repo == [adapter |-> service.adapter, rows |-> lei_metadata, index |-> index]

\* what the call op(arg) that has ended as out leaves in last
Last(op, arg, out) ==
    [op |-> op, arg |-> arg,
     before |-> [rows |-> lei_metadata, index |-> index, cache |-> wikidata_cache],
     loaded |-> out.loaded, result |-> out.result, trace |-> out.trace]

\* the call op(arg) has ended as out
Did(op, arg, out) ==
    /\ last' = Last(op, arg, out)
    /\ lei_metadata' = out.repo.rows
    /\ index' = out.repo.index
    /\ UNCHANGED <<wikidata_cache, race, service, normVars, companyVars, clientVars>>

\* enrichment_service.get_enriched_company_by_isin(isin)
GetEnrichedByIsin(isin, final) ==
    /\ service.adapter \in Adapters
    /\ Did("get_enriched_company_by_isin", isin,
           _ensure_enriched_company_by_isin(Repo, isin, final))

\* enrichment_service.get_enriched_company_by_lei(lei)
GetEnrichedByLei(lei, final) ==
    /\ service.adapter \in Adapters
    /\ Did("get_enriched_company_by_lei", PyText(lei),
           _ensure_enriched_company_by_lei(Repo, lei, final))

\* enrichment_service.get_enriched_companies_by_isin(isins)
GetEnrichedMany(isins, finals) ==
    /\ service.adapter \in Adapters
    /\ Did("get_enriched_companies_by_isin", PyList(isins),
           _ensure_enriched_company_by_isins(Repo, isins, service.batch_size, finals))

\* service.find_matches(isin, k)
FindMatches(isin, k, final, hits) ==
    /\ service.adapter \in Adapters
    /\ Did("find_matches", isin, find_matches(Repo, isin, k, final, hits))

\* service.insert_embedding(isins)
InsertEmbedding(isins, final) ==
    /\ service.adapter \in Adapters
    /\ Did("insert_embedding", isins, insert_embedding(Repo, isins, final))

\* a call of the repository itself has ended as result, leaving it as r
Direct(op, arg, result, r) ==
    Did(op, arg, St(result, r, result, <<StoreOp(op, arg)>>))

\* company_repo.get_by_isin(isin)
GetByIsin(isin) ==
    /\ service.adapter \in Adapters
    /\ Direct("get_by_isin", isin, get_by_isin(Repo, isin), Repo)

\* company_repo.get_by_lei(lei)
GetByLei(lei) ==
    /\ service.adapter \in Adapters
    /\ Direct("get_by_lei", PyText(lei), get_by_lei(Repo, lei), Repo)

\* company_repo.get_by_isins(isins)
GetByIsins(isins) ==
    /\ service.adapter \in Adapters
    /\ Direct("get_by_isins", PyList(isins), get_by_isins(Repo, isins), Repo)

\* company_repo.list_all()
ListAll ==
    /\ service.adapter \in Adapters
    /\ Direct("list_all", PyNone, list_all(Repo), Repo)

\* company_repo.enrich_company(lei, description, labels) for the LEI of a
\* stored entity; the call returns None
EnrichCompany(lei, description, labels) ==
    /\ service.adapter \in Adapters
    /\ RowFor(lei_metadata, lei) # NoRow
    /\ Direct("enrich_company",
              [lei |-> lei, description |-> description, labels |-> labels],
              Returned(PyNone), enrich_company(Repo, lei, description, labels).val)

\* a call of the cache methods of SqliteCompanyRepository has ended,
\* leaving the two cache tables as cache
Cached(op, arg, cache) ==
    /\ last' = Last(op, arg, St(Returned(PyNone), Repo, Returned(PyNone),
                                <<StoreOp(op, arg)>>))
    /\ wikidata_cache' = cache
    /\ UNCHANGED <<lei_metadata, index, race, service, normVars, companyVars, clientVars>>

\* company_repo.save_wikidata_information(lei, wikidata_id, description, sectors)
SaveWikidataInformation(lei, d) ==
    /\ service.adapter = "sqlite"
    /\ Cached("save_wikidata_information", PyText(lei),
              save_wikidata_information(wikidata_cache, lei, d))

\* company_repo.set_wikidata_info(company) for a company of LEI lei, d
\* being what query_wikidata answers if it is asked
SetWikidataInfo(lei, d) ==
    /\ service.adapter = "sqlite"
    /\ Cached("set_wikidata_info", PyText(lei),
              IF get_cached_wikidata(wikidata_cache, lei) # PyNone THEN wikidata_cache
              ELSE save_wikidata_information(wikidata_cache, lei, d))

\* the number of chunks get_enriched_companies_by_isin(isins) would send in
\* this state
Requests(isins) ==
    IF ~get_by_isins(Repo, isins).ok \/ service.batch_size <= 0 THEN 0
    ELSE (Len(NeedIdx(get_by_isins(Repo, isins).val.v)) + service.batch_size - 1)
             \div service.batch_size

ServiceNext ==
    \/ \E isin \in IsinArgs, final \in KbFinals : GetEnrichedByIsin(isin, final)
    \/ \E lei \in KbLeis \cup {"L9"}, final \in KbFinals : GetEnrichedByLei(lei, final)
    \/ \E isins \in IsinLists : \E finals \in [1..Requests(isins) -> KbFinals] :
          GetEnrichedMany(isins, finals)
    \/ \E isin \in ServiceRaws, k \in 1..MaxK, final \in KbFinals :
          \E hits \in Hits(index, k) : FindMatches(isin, k, final, hits)
    \/ \E isins \in ServiceRaws \cup {PyList(<<PyStr(IsinCH)>>)}, final \in KbFinals :
          InsertEmbedding(isins, final)

SpecService == ServiceInit /\ [][ServiceNext]_vars

\* SpecStore: one call of the repository per step, from the same stores
StoreNext ==
    \/ \E isin \in IsinArgs : GetByIsin(isin)
    \/ \E lei \in KbLeis \cup {"L9"} : GetByLei(lei)
    \/ \E isins \in IsinLists : GetByIsins(isins)
    \/ ListAll
    \/ \E lei \in KbLeis, e \in Enrichments : EnrichCompany(lei, e.description, e.labels)
    \/ \E lei \in KbLeis, d \in WikidataDicts : SaveWikidataInformation(lei, d)
    \/ \E lei \in KbLeis, d \in WikidataDicts : SetWikidataInfo(lei, d)

SpecStore == ServiceInit /\ [][StoreNext]_vars

----------------------------------------------------------------------------
(* SpecRace: two processes call get_enriched_company_by_lei for the same   *)
(* LEI over one store.  Each process runs lines 107-125 of                 *)
(* enrichment_service.py one store or network operation at a time: the     *)
(* load, the knowledge-base query, and the write with the return.  The     *)
(* repository opens a connection per operation (_conn), so the operations  *)
(* of the two processes interleave freely.                                 *)

Procs == {1, 2}

\* a process at the head of _ensure_enriched_company_by_lei
Start ==
    [pc |-> "start", company |-> PyNone, data |-> EMPTY, result |-> Pending, asked |-> 0]

\* lines 108-114: the load has returned or raised; the two early returns
AfterLoad(pr, loaded) ==
    IF ~loaded.ok \/ loaded.val = PyNone \/ has_sector_data(loaded.val)
    THEN [pr EXCEPT !.pc = "done", !.result = loaded]
    ELSE [pr EXCEPT !.pc = "loaded", !.company = loaded.val]

\* lines 116-118: self._query_wikidata has returned or raised; without a
\* wikidata_id the company is returned as loaded
AfterAnswer(pr, answer) ==
    IF ~answer.ok THEN [pr EXCEPT !.pc = "done", !.result = answer, !.asked = 1]
    ELSE IF ~Truthy(answer.val.wikidata_id)
    THEN [pr EXCEPT !.pc = "done", !.result = Returned(pr.company), !.asked = 1,
                    !.data = answer.val]
    ELSE [pr EXCEPT !.pc = "queried", !.asked = 1, !.data = answer.val]

\* lines 119-125: company.enrich, enrich_company and the return
AfterWrite(pr, ap) ==
    [pr EXCEPT !.pc = "done", !.company = ap.company,
               !.result = IF ap.stored.ok THEN Returned(ap.company) ELSE ap.stored]

RaceInit ==
    /\ service \in [adapter : Adapters, batch_size : {BATCH_SIZE_DEFAULT}]
    /\ lei_metadata \in {[l \in KbLeis |-> IF l = "L1" THEN r1 ELSE r2] :
                            r1 \in StoreRows("L1"), r2 \in StoreRows("L2")}
    /\ index = <<>>
    /\ wikidata_cache = <<>>
    /\ last = NoLast
    /\ race \in {[lei |-> l, before |-> lei_metadata, proc |-> [p \in Procs |-> Start]] :
                    l \in KbLeis}
    /\ raw = PyNone /\ nres = Pending /\ nres2 = Pending
    /\ CompanyIdle
    /\ ClientIdle

\* process p: company = self.company_repo.get_by_lei(lei)
RaceLoad(p) ==
    /\ race.proc[p].pc = "start"
    /\ race' = [race EXCEPT !.proc[p] = AfterLoad(@, get_by_lei(Repo, race.lei))]
    /\ UNCHANGED <<service, lei_metadata, index, wikidata_cache, last,
                   normVars, companyVars, clientVars>>

\* process p: wikidata_data = self._query_wikidata(company.lei), final being
\* how its session.get ends
RaceQuery(p, final) ==
    /\ race.proc[p].pc = "loaded"
    /\ race' = [race EXCEPT !.proc[p] =
                    AfterAnswer(@, _query_wikidata(@.company.lei, final))]
    /\ UNCHANGED <<service, lei_metadata, index, wikidata_cache, last,
                   normVars, companyVars, clientVars>>

\* process p: company.enrich(...); self.company_repo.enrich_company(...);
\* return company
RaceWrite(p) ==
    /\ race.proc[p].pc = "queried"
    /\ race' = [race EXCEPT !.proc[p] = AfterWrite(@, Apply(Repo, @.company, @.data))]
    /\ lei_metadata' = Apply(Repo, race.proc[p].company, race.proc[p].data).stored.val.rows
    /\ UNCHANGED <<service, index, wikidata_cache, last,
                   normVars, companyVars, clientVars>>

RaceNext ==
    \/ \E p \in Procs : RaceLoad(p)
    \/ \E p \in Procs, final \in KbFinals : RaceQuery(p, final)
    \/ \E p \in Procs : RaceWrite(p)

SpecRace == RaceInit /\ [][RaceNext]_vars

----------------------------------------------------------------------------
(* Claims about the services (SpecService) *)

\* the last call was find_matches or insert_embedding with one identifier,
\* and the normalizer rejects that identifier
C3_Rejected ==
    /\ last.op \in {"find_matches", "insert_embedding"}
    /\ ~IsList(last.arg)
    /\ ~_validate_normalize_isin(last.arg).ok

\* C3: find_matches and insert_embedding, given an identifier the
\* normalizer rejects, raise the normalizer's ValueError having performed no
\* store lookup, no knowledge-base request and no index query or upsert
\* (nothing is retried), and leave the store and the index as they were
C3_FailsFast ==
    C3_Rejected =>
        /\ last.result = Raised("ValueError")
        /\ last.trace = <<>>
        /\ lei_metadata = last.before.rows
        /\ index = last.before.index

\* insert_embedding("US037833100") and find_matches(None, k) are among the
\* calls, made on a store that holds an unenriched L1 behind a repository
\* that would have returned it
C3_Witness ==
    /\ C3_Rejected
    /\ last.arg = PyStr(<<"U", "S", "0", "3", "7", "8", "3", "3", "1", "0", "0">>)
    /\ last.op = "insert_embedding"
    /\ last.result = Raised("ValueError")
    /\ service.adapter = "protocol"
    /\ lei_metadata["L1"] # NoRow
    /\ ~has_sector_data(lei_metadata["L1"])

\* the LEIs of the knowledge-base requests of the last call
C6_Asked == UNION {Range(e.leis) : e \in {x \in Range(last.trace) : x.on = "kb"}}

\* the last call was a lookup of one entity, which the repository loaded
\* with has_sector_data true
C6_LoadedOne ==
    /\ last.op \in {"get_enriched_company_by_isin", "get_enriched_company_by_lei"}
    /\ last.loaded.ok
    /\ last.loaded.val # PyNone
    /\ has_sector_data(last.loaded.val)

\* the last call was a lookup of many entities, which the repository loaded
C6_LoadedMany == last.op = "get_enriched_companies_by_isin" /\ last.loaded.ok

\* C6: an entity loaded with has_sector_data true is not asked about: the
\* call issues no knowledge-base request for it, single or batched, and
\* returns it as loaded (a call of many returns it at its position whenever
\* the call returns)
C6_NeverRequeried ==
    /\ C6_LoadedOne => last.result = last.loaded /\ C6_Asked = {}
    /\ C6_LoadedMany =>
          \A i \in 1..Len(last.loaded.val.v) :
              has_sector_data(last.loaded.val.v[i]) =>
                  /\ last.loaded.val.v[i].lei \notin C6_Asked
                  /\ last.result.ok => last.result.val.v[i] = last.loaded.val.v[i]

\* a call of many has loaded the enriched L2 and the unenriched L1, asked
\* the knowledge base about L1 and enriched it; and a lookup by ISIN can
\* return an enriched entity
C6_Witness ==
    /\ C6_LoadedMany
    /\ Len(last.loaded.val.v) = 2
    /\ ~has_sector_data(last.loaded.val.v[1])
    /\ has_sector_data(last.loaded.val.v[2])
    /\ C6_Asked = {"L1"}
    /\ last.result.ok
    /\ has_sector_data(last.result.val.v[1])
    /\ last.result.val.v[2] = last.loaded.val.v[2]

\* the last call was get_enriched_companies_by_isin and it returned
C11_Returned == last.op = "get_enriched_companies_by_isin" /\ last.result.ok

\* the LEI of the entity row the i-th ISIN of the last call resolved to
\* when the call was made, "none" if it resolved to none
C11_Resolved(i) == RowFor(last.before.rows, MappedLei(last.arg.v[i])).lei

\* C11: get_enriched_companies_by_isin returns a list as long as its input,
\* holding at position i the entity ISIN i resolves to and None where ISIN
\* i has no matching entity
C11_PreservesOrder ==
    C11_Returned =>
        /\ Len(last.result.val.v) = Len(last.arg.v)
        /\ \A i \in 1..Len(last.arg.v) :
              IF C11_Resolved(i) = "none" THEN last.result.val.v[i] = PyNone
              ELSE /\ last.result.val.v[i] # PyNone
                   /\ last.result.val.v[i].lei = C11_Resolved(i)

\* the positions of the trace of the last call that are knowledge-base
\* requests naming lei
C12_RequestsFor(lei) ==
    {i \in DOMAIN last.trace : last.trace[i].on = "kb" /\ lei \in Range(last.trace[i].leis)}

\* the positions of the trace of the last call that are store lookups
C12_Lookups ==
    {i \in DOMAIN last.trace :
        last.trace[i].on = "store" /\ last.trace[i].op # "enrich_company"}

\* C12: a call of get_enriched_companies_by_isin fetches the entities with
\* one get_by_isins call and names each LEI in at most one knowledge-base
\* request, also when several input ISINs resolve to the same LEI
C12_AtMostOnce ==
    last.op = "get_enriched_companies_by_isin" =>
        /\ Cardinality(C12_Lookups) = 1
        /\ last.trace[1] = StoreOp("get_by_isins", last.arg.v)
        /\ \A lei \in KbLeis : Cardinality(C12_RequestsFor(lei)) <= 1

----------------------------------------------------------------------------
(* Claims about the repository (SpecStore) *)

\* the entity row the argument of the last get_by_isin resolved to, NoRow
\* when the ISIN has no mapping row or the mapped LEI has no entity row
C13_Row == RowFor(last.before.rows, MappedLei(last.arg))

\* the last call was get_by_isin with an ISIN that has no record
C13_Miss == last.op = "get_by_isin" /\ C13_Row = NoRow

C14_ReturnsNone == C13_Miss => last.result = Returned(PyNone)

\* the row the last get_by_isin or get_by_lei was to load
C15_Row ==
    IF last.op = "get_by_isin" THEN C13_Row ELSE RowFor(last.before.rows, last.arg.v)

\* C15: get_by_isin and get_by_lei of a stored entity return the entity of
\* its row: the identity attributes of the row and the description and
\* sector_labels last written to it
C15_ReflectsStore ==
    (last.op \in {"get_by_isin", "get_by_lei"} /\ C15_Row # NoRow) =>
        last.result = Returned(CompanyOf(C15_Row))

\* the entities of the ISINs of the last get_by_isins that have a mapping
\* row and an entity row
C16_Matched ==
    {CompanyOf(RowFor(last.before.rows, MappedLei(i))) :
        i \in {x \in Range(last.arg.v) : RowFor(last.before.rows, MappedLei(x)) # NoRow}}

\* C16: get_by_isins does not fail; it returns exactly the entities of the
\* ISINs that have a mapping row and an entity row, and so nothing for an
\* unmatched ISIN or an empty input
C16_AbsentNotError ==
    last.op = "get_by_isins" =>
        /\ last.result.ok
        /\ Range(last.result.val.v) = C16_Matched

\* the last call was enrich_company of a repository that implements it
C17_Enriched == last.op = "enrich_company" /\ service.adapter = "protocol"

C18_Unchanged == lei_metadata = last.before.rows /\ wikidata_cache = last.before.cache

\* the last call was one of the lookups of the repository
C18_Read == last.op \in {"get_by_isin", "get_by_isins", "get_by_lei", "list_all"}

\* the columns enrich_company may write
C18_Written == {"description", "sector_labels", "wikidata_check", "timestamp"}

\* enrich_company changed at most the written columns of the row of its LEI
C18_OnlyItsRow ==
    /\ wikidata_cache = last.before.cache
    /\ DOMAIN lei_metadata = DOMAIN last.before.rows
    /\ \A l \in DOMAIN lei_metadata :
          IF l # last.arg.lei THEN lei_metadata[l] = last.before.rows[l]
          ELSE /\ DOMAIN lei_metadata[l] = DOMAIN last.before.rows[l]
               /\ \A k \in DOMAIN lei_metadata[l] \ C18_Written :
                     lei_metadata[l][k] = last.before.rows[l][k]

----------------------------------------------------------------------------
(* Claims about enrichment through the services (SpecService) *)

\* the last call was a lookup of one entity that loaded it unenriched and
\* returned
C19_One ==
    /\ last.op \in {"get_enriched_company_by_isin", "get_enriched_company_by_lei"}
    /\ last.loaded.ok
    /\ Needs(last.loaded.val)
    /\ last.result.ok

\* the positions of the entities the last lookup of many loaded unenriched
C19_Needing == {i \in 1..Len(last.loaded.val.v) : Needs(last.loaded.val.v[i])}

\* the positions of the trace of the last call that are knowledge-base
\* requests naming lei or answered with an entry for lei
C19_About(lei) ==
    {i \in DOMAIN last.trace :
        /\ last.trace[i].on = "kb"
        /\ \/ lei \in Range(last.trace[i].leis)
           \/ last.trace[i].answer.ok /\ lei \in DOMAIN last.trace[i].answer.val}

\* the last of them, whose answer is what the call holds for lei (C19_About(lei)
\* is not empty)
C19_Request(lei) ==
    last.trace[CHOOSE i \in C19_About(lei) : \A j \in C19_About(lei) : j <= i]

\* what the client answered about lei in the last call: the dict of the
\* single query, or the entry of lei in the map of the batch query
C19_Data(lei) ==
    IF last.op = "get_enriched_companies_by_isin"
    THEN C19_Request(lei).answer.val[lei] ELSE C19_Request(lei).answer.val

\* the client was asked about lei in the last call and returned
C19_Answered(lei) == C19_About(lei) # {} /\ C19_Request(lei).answer.ok

\* the client returned a non-empty result for lei in the last call
C19_NonEmpty(lei) == C19_Answered(lei) /\ Truthy(C19_Data(lei).wikidata_id)

\* the entity c carries the result the client returned for it, and the row
\* of its LEI holds the same two fields with wikidata_check set
C19_Persisted(c) ==
    /\ c.description = DescriptionOf(C19_Data(c.lei))
    /\ c.sector_labels = LabelsOf(C19_Data(c.lei))
    /\ lei_metadata[c.lei].description = c.description
    /\ lei_metadata[c.lei].sector_labels = c.sector_labels
    /\ lei_metadata[c.lei].wikidata_check = 1

C20_Empty(lei) == C19_Answered(lei) /\ ~Truthy(C19_Data(lei).wikidata_id)

\* C20: when the client returned the empty result for an entity loaded
\* unenriched, the lookup of one entity or of many raises no exception,
\* returns that entity as it was loaded and does not write its row
C20_Degrades ==
    /\ \A lei \in KbLeis :
          (last.op \in {"get_enriched_company_by_isin", "get_enriched_company_by_lei"}
              /\ C20_Empty(lei)) =>
                  /\ last.result = last.loaded
                  /\ lei_metadata = last.before.rows
    /\ C6_LoadedMany =>
          \A i \in C19_Needing :
              C20_Empty(last.loaded.val.v[i].lei) =>
                  /\ last.result.ok
                  /\ last.result.val.v[i] = last.loaded.val.v[i]
                  /\ lei_metadata[last.loaded.val.v[i].lei]
                         = last.before.rows[last.loaded.val.v[i].lei]

\* the part of C20 that holds: the same, for a lookup of many in which the
\* client returned for every entity it was asked about; the entities with a
\* match are then enriched in the same call
C20_WhenAnswered ==
    /\ \A lei \in KbLeis :
          (last.op \in {"get_enriched_company_by_isin", "get_enriched_company_by_lei"}
              /\ C20_Empty(lei)) =>
                  /\ last.result = last.loaded
                  /\ lei_metadata = last.before.rows
    /\ (C6_LoadedMany /\ \A i \in C19_Needing : C19_Answered(last.loaded.val.v[i].lei)) =>
          /\ last.result.ok
          /\ Len(last.result.val.v) = Len(last.loaded.val.v)
          /\ \A i \in C19_Needing :
                IF C20_Empty(last.loaded.val.v[i].lei)
                THEN /\ last.result.val.v[i] = last.loaded.val.v[i]
                     /\ lei_metadata[last.loaded.val.v[i].lei]
                            = last.before.rows[last.loaded.val.v[i].lei]
                ELSE C19_Persisted(last.result.val.v[i])

\* a lookup of two unenriched entities in chunks of one has received the
\* item of L1 and nothing for L2: it returned L1 enriched and L2 as loaded
C20_Mixed ==
    /\ C6_LoadedMany
    /\ Len(last.loaded.val.v) = 2
    /\ C19_Needing = {1, 2}
    /\ C19_NonEmpty("L1")
    /\ C20_Empty("L2")
    /\ last.result.ok
    /\ has_sector_data(last.result.val.v[1])
    /\ last.result.val.v[2] = last.loaded.val.v[2]
    /\ lei_metadata["L2"] = last.before.rows["L2"]
    /\ lei_metadata["L1"].wikidata_check = 1

----------------------------------------------------------------------------
(* Claims about matching and the vector index (SpecService) *)

\* what the normalizer makes of the argument of the last call
C21_Isin == _validate_normalize_isin(last.arg)

\* the LEI of the entity the argument of the last call resolved to when the
\* call was made, "none" if the normalizer rejects it or it resolved to none
C21_Source ==
    IF IsList(last.arg) \/ ~C21_Isin.ok THEN "none"
    ELSE RowFor(last.before.rows, MappedLei(C21_Isin.val)).lei

\* the last call was find_matches with a valid ISIN that resolved to an
\* entity
C21_Resolves == last.op = "find_matches" /\ C21_Source # "none"

\* the positions of the trace of the last call that are index queries
C21_Queries ==
    {i \in DOMAIN last.trace : last.trace[i].on = "index" /\ last.trace[i].op = "query"}

\* the result of the last call is the answer q of the index: the distances
\* as the index gave them, as many entities, at most k and no more than the
\* index held
C21_Scores(q) ==
    /\ last.result.val.weights = PyList(q.distances)
    /\ Len(last.result.val.companies.v) = Len(q.distances)
    /\ Len(q.ids) = Len(q.distances)
    /\ Len(q.ids) <= q.n_results
    /\ Len(q.ids) <= Cardinality(DOMAIN last.before.index)

\* the index was asked once, with the embedding text of the source entity
\* as the store holds it after the call
C21_Asked ==
    /\ Cardinality(C21_Queries) = 1
    /\ \A i \in C21_Queries :
          last.trace[i].arg.query_texts
              = embedding_text(CompanyOf(lei_metadata[C21_Source]))

\* C21: find_matches(isin, k), for a valid ISIN that resolves to an entity,
\* queries the index with the embedding text of the resolved and enriched
\* source entity and returns the index's distances unmodified with as many
\* entities, entity i being the stored entity of the i-th identifier the
\* index returned, at most k of them and never padded
C21_Matches ==
    C21_Resolves =>
        /\ last.result.ok
        /\ C21_Asked
        /\ \A i \in C21_Queries :
              /\ C21_Scores(last.trace[i].arg)
              /\ \A j \in 1..Len(last.trace[i].arg.ids) :
                    /\ last.result.val.companies.v[j] # PyNone
                    /\ last.result.val.companies.v[j].lei = last.trace[i].arg.ids[j]

\* the part of C21 that holds: whenever find_matches returns, it has asked
\* the index once with the embedding text of the enriched source entity and
\* returns the index's distances unmodified with as many entries, entry i
\* being the stored entity of the i-th identifier where the store has one
C21_WhenReturned ==
    (C21_Resolves /\ last.result.ok) =>
        /\ C21_Asked
        /\ \A i \in C21_Queries :
              /\ C21_Scores(last.trace[i].arg)
              /\ \A j \in 1..Len(last.trace[i].arg.ids) :
                    RowFor(last.before.rows, last.trace[i].arg.ids[j]) # NoRow =>
                        last.result.val.companies.v[j]
                            = CompanyOf(lei_metadata[last.trace[i].arg.ids[j]])

\* find_matches has returned the stored L1 for a query answered with L1
\* alone, from an index of two documents
C21_Returned ==
    /\ C21_Resolves
    /\ last.result.ok
    /\ \E i \in C21_Queries :
          /\ last.trace[i].arg.ids = <<"L1">>
          /\ last.trace[i].arg.n_results = 1
    /\ Cardinality(DOMAIN last.before.index) = 2
    /\ RowFor(last.before.rows, "L1") # NoRow
    /\ last.result.val.weights = PyList(<<1>>)

\* the identifiers the index returned in the last call that the store had
\* no record of
C22_Orphans ==
    {l \in UNION {Range(last.trace[i].arg.ids) : i \in C21_Queries} :
        RowFor(last.before.rows, l) = NoRow}

C22_SqliteRaises ==
    service.adapter = "sqlite" =>
        \A l \in (KbLeis \cup {"L9"}) :
            RowFor(lei_metadata, l) = NoRow => get_by_lei(Repo, l) = Raised("ValueError")

\* the identifiers the last call was given: the elements of a list, or the
\* one argument
C23_Given == IF IsList(last.arg) THEN Range(last.arg.v) ELSE {last.arg}

\* the LEI of the entity the identifier x resolved to when the last call
\* was made, "none" if the normalizer rejects x or it resolved to none
C23_Lei(x) ==
    IF ~_validate_normalize_isin(x).ok THEN "none"
    ELSE RowFor(last.before.rows, MappedLei(_validate_normalize_isin(x).val)).lei

\* the LEIs of the entities the given identifiers resolved to
C23_Resolved == {C23_Lei(x) : x \in C23_Given} \ {"none"}

\* the index holds under lei the embedding text of the entity as the store
\* holds it after the call
C23_Holds(lei) ==
    /\ lei \in DOMAIN index
    /\ index[lei] = embedding_text(CompanyOf(lei_metadata[lei]))

\* no entry under a key outside keys has been added or changed
C23_OthersKept(keys) ==
    /\ DOMAIN index \ keys = DOMAIN last.before.index \ keys
    /\ \A l \in DOMAIN index \ keys : index[l] = last.before.index[l]

\* C23: insert_embedding takes one ISIN or a list of ISINs; for each given
\* ISIN that is valid and resolves to an entity the call completes with the
\* index holding, under that entity's LEI, the embedding text of the entity
\* after enrichment, and no entry under any other key is added or changed
C23_Upserts ==
    last.op = "insert_embedding" =>
        /\ C23_Resolved # {} => last.result.ok
        /\ \A lei \in C23_Resolved : C23_Holds(lei)
        /\ C23_OthersKept(C23_Resolved)

\* the part of C23 that holds: no call of insert_embedding adds or changes
\* an entry under a key other than the LEIs its identifiers resolve to
C23_NoOtherKey == last.op = "insert_embedding" => C23_OthersKept(C23_Resolved)

\* C24: insert_embedding for an ISIN that resolves to an entity leaves one
\* entry under the entity's LEI, holding its embedding text, and running it
\* again on the unchanged entity leaves the index, the number of its
\* entries included, exactly as the first run left it
C24_SecondRunSame ==
    (last.op = "insert_embedding" /\ C23_Resolved # {}) =>
        /\ \A lei \in C23_Resolved : C23_Holds(lei)
        /\ \A final \in KbFinals :
              insert_embedding(Repo, last.arg, final).repo.index = index

\* the entity the store holds under lei, in a list
C24_Items(lei) == PyList(<<CompanyOf(lei_metadata[lei])>>)

\* the part of C24 that holds: upsert_embedding given a list of one stored
\* entity writes one entry, and given it again leaves the index as the
\* first call left it
C24_UpsertTwice ==
    \A lei \in {l \in KbLeis : RowFor(lei_metadata, l) # NoRow} :
        /\ upsert_embedding(index, C24_Items(lei)).ok
        /\ DOMAIN upsert_embedding(index, C24_Items(lei)).val = DOMAIN index \cup {lei}
        /\ upsert_embedding(upsert_embedding(index, C24_Items(lei)).val, C24_Items(lei))
               = upsert_embedding(index, C24_Items(lei))

\* find_matches has returned out: exactly one match, the entity of lei, at
\* the one distance the index reports
C25_Self(out, lei) ==
    /\ out.ok
    /\ Len(out.val.companies.v) = 1
    /\ out.val.companies.v[1] # PyNone
    /\ out.val.companies.v[1].lei = lei
    /\ Len(out.val.weights.v) = 1

\* C25: after insert_embedding(isin) on an empty index, for an ISIN that
\* resolves to an entity, find_matches(isin, k) called next returns, for
\* every k >= 1, exactly one match: the entity the ISIN resolves to, at the
\* minimum distance the index reports
C25_SelfMatch ==
    (last.op = "insert_embedding" /\ C21_Source # "none" /\ last.before.index = <<>>) =>
        \A k \in 1..MaxK, final \in KbFinals :
            \A hits \in Hits(index, k) :
                C25_Self(find_matches(Repo, last.arg, k, final, hits).result, C21_Source)

----------------------------------------------------------------------------
(* Claims about the caching of knowledge-base results (SpecService) *)

\* the last call was a lookup of the enrichment service in which the client
\* returned the empty result for lei
C27_NoResult(lei) ==
    /\ last.op \in {"get_enriched_company_by_isin", "get_enriched_company_by_lei",
                    "get_enriched_companies_by_isin"}
    /\ C20_Empty(lei)

\* the trace holds a knowledge-base request that names lei
C27_Asks(trace, lei) ==
    \E i \in DOMAIN trace : trace[i].on = "kb" /\ lei \in Range(trace[i].leis)

\* a lookup of lei alone made in this state asks the knowledge base about
\* lei, however its request ends
C27_OneAsks(lei) ==
    /\ \A final \in KbFinals :
          C27_Asks(_ensure_enriched_company_by_lei(Repo, lei, final).trace, lei)
    /\ \A isin \in {x \in IsinArgs : MappedLei(x) = lei}, final \in KbFinals :
          C27_Asks(_ensure_enriched_company_by_isin(Repo, isin, final).trace, lei)

\* the lists of ISINs that include one of lei
C27_Including(lei) ==
    {isins \in IsinLists : \E i \in DOMAIN isins : MappedLei(isins[i]) = lei}

\* C27: when the knowledge base returned the empty result for an entity,
\* nothing recording the attempt is stored, and every lookup of one entity
\* or of many that includes it afterwards issues a knowledge-base request
\* for its LEI again
C27_NotCached ==
    \A lei \in KbLeis :
        C27_NoResult(lei) =>
            /\ lei_metadata[lei] = last.before.rows[lei]
            /\ C27_OneAsks(lei)
            /\ \A isins \in C27_Including(lei) :
                  \A finals \in [1..Requests(isins) -> KbFinals] :
                      C27_Asks(_ensure_enriched_company_by_isins(
                                   Repo, isins, service.batch_size, finals).trace, lei)

\* the part of C27 that holds: nothing is stored, a lookup of the entity
\* alone asks again, and with a batch size of at least 1 a lookup of many
\* that includes it asks again unless the request of an earlier chunk raised
C27_AsksAgain ==
    \A lei \in KbLeis :
        C27_NoResult(lei) =>
            /\ lei_metadata[lei] = last.before.rows[lei]
            /\ C27_OneAsks(lei)
            /\ service.batch_size >= 1 =>
                  \A isins \in C27_Including(lei) :
                      \A finals \in [1..Requests(isins) -> KbFinals] :
                          \/ C27_Asks(_ensure_enriched_company_by_isins(
                                   Repo, isins, service.batch_size, finals).trace, lei)
                          \/ ~_ensure_enriched_company_by_isins(
                                   Repo, isins, service.batch_size, finals).result.ok

\* a lookup of L2 by its LEI was answered without bindings and returned L2
\* as loaded, its row still without sector data
C27_Requeried ==
    /\ last.op = "get_enriched_company_by_lei"
    /\ C27_NoResult("L2")
    /\ last.result = last.loaded
    /\ ~has_sector_data(CompanyOf(lei_metadata["L2"]))
    /\ lei_metadata["L2"].wikidata_check = 0

\* in the last call the client returned a non-empty result for lei and the
\* call stored it with enrich_company
C30_Fetched(lei) ==
    /\ last.op \in {"get_enriched_company_by_isin", "get_enriched_company_by_lei",
                    "get_enriched_companies_by_isin"}
    /\ C19_NonEmpty(lei)
    /\ \E i \in DOMAIN last.trace : last.trace[i] = StoreOp("enrich_company", lei)
    /\ lei_metadata[lei].wikidata_check = 1

\* no lookup of one entity or of many made in this state asks the
\* knowledge base about lei, however its requests end
C30_NoneAsks(lei) ==
    /\ \A final \in KbFinals :
          ~C27_Asks(_ensure_enriched_company_by_lei(Repo, lei, final).trace, lei)
    /\ \A isin \in {x \in IsinArgs : MappedLei(x) = lei}, final \in KbFinals :
          ~C27_Asks(_ensure_enriched_company_by_isin(Repo, isin, final).trace, lei)
    /\ \A isins \in C27_Including(lei) :
          \A finals \in [1..Requests(isins) -> KbFinals] :
              ~C27_Asks(_ensure_enriched_company_by_isins(
                            Repo, isins, service.batch_size, finals).trace, lei)

\* C30: once a lookup has received a non-empty knowledge-base result for a
\* LEI and stored it with enrich_company, no later lookup of one entity or
\* of many, which reloads the entity from the store, issues a
\* knowledge-base request for that LEI, whatever the result holds: also
\* when its description is null and it has no sectors
C30_CachedForever == \A lei \in KbLeis : C30_Fetched(lei) => C30_NoneAsks(lei)

\* the part of C30 that holds: the same, for a result that holds a
\* description or a sector
C30_WhenContent ==
    \A lei \in KbLeis :
        (C30_Fetched(lei) /\ has_sector_data(CompanyOf(lei_metadata[lei])))
            => C30_NoneAsks(lei)

\* a lookup by LEI has stored the item, description and sectors it
\* received for L1, and the row of L1 now has sector data
C30_Stored ==
    /\ last.op = "get_enriched_company_by_lei"
    /\ C30_Fetched("L1")
    /\ has_sector_data(CompanyOf(lei_metadata["L1"]))
    /\ ~has_sector_data(CompanyOf(last.before.rows["L1"]))

----------------------------------------------------------------------------
(* Claims about concurrent enrichment (SpecRace) *)

\* both processes have returned or raised
C26_Done == race.lei # "none" /\ \A p \in Procs : race.proc[p].pc = "done"

\* the row of the LEI when the processes started
C26_Row == RowFor(race.before, race.lei)

\* the processes started on a stored entity without sector data
C26_Unenriched == C26_Row # NoRow /\ ~has_sector_data(CompanyOf(C26_Row))

\* the row of the LEI is as one process that received data leaves it: the
\* two fields of a non-empty result, or the row as it was
C26_AsSingle(data) ==
    IF Truthy(data.wikidata_id)
    THEN /\ lei_metadata[race.lei].description = DescriptionOf(data)
         /\ lei_metadata[race.lei].sector_labels = LabelsOf(data)
    ELSE lei_metadata[race.lei] = C26_Row

\* nothing but the row of the LEI has changed, each process has asked the
\* knowledge base at most once, and the row is as a single process leaves it
C26_Harmless ==
    /\ \A l \in DOMAIN lei_metadata \ {race.lei} : lei_metadata[l] = race.before[l]
    /\ \A p \in Procs : race.proc[p].asked <= 1
    /\ \E p \in Procs : C26_AsSingle(race.proc[p].data)

\* C26: when two processes run get_enriched for the same unenriched LEI, in
\* every interleaving both complete without error, nothing happens but a
\* second knowledge-base lookup, and the row of the LEI ends with the
\* description and sector_labels a single process would have stored
C26_NoLock ==
    (C26_Done /\ C26_Unenriched) =>
        /\ \A p \in Procs : race.proc[p].result.ok
        /\ C26_Harmless

\* the part of C26 that holds: whatever the processes return or raise, the
\* race leaves the store as a single process would
C26_RaceBenign == (C26_Done /\ C26_Unenriched) => C26_Harmless

\* both processes loaded L1 unenriched, both asked the knowledge base, both
\* wrote, and both returned L1 enriched
C26_BothWrote ==
    /\ C26_Done
    /\ C26_Unenriched
    /\ race.lei = "L1"
    /\ \A p \in Procs :
          /\ race.proc[p].asked = 1
          /\ Truthy(race.proc[p].data.wikidata_id)
          /\ race.proc[p].result.ok
          /\ has_sector_data(race.proc[p].result.val)
    /\ lei_metadata["L1"].wikidata_check = 1

----------------------------------------------------------------------------
(* Claims about the batched queries of the client (SpecClient) *)

\* _query_wikidata_batch, called with a list of LEIs, has returned its map
C28_Returned == call.kind = "batch" /\ call.state = "done" /\ cres.ok

\* the bindings of the response that ended the request, none if the body
\* is not of the expected shape
C28_Rows ==
    IF Bindings(Returned(req.body)).ok /\ Bindings(Returned(req.body)).val.t = "list"
    THEN Bindings(Returned(req.body)).val.v
    ELSE <<>>

\* every sector listed under lei is the sector of a binding of the
\* response that carries lei
C28_FromItsOwn(lei) ==
    \A i \in DOMAIN cres.val[lei].sectors.v :
        \E j \in DOMAIN C28_Rows :
            /\ LeiOf(C28_Rows[j]) = Returned(PyText(lei))
            /\ SectorOf(C28_Rows[j]) = Returned(cres.val[lei].sectors.v[i])

\* no sector is listed twice under lei
C28_Once(lei) ==
    \A i, j \in DOMAIN cres.val[lei].sectors.v :
        i # j => cres.val[lei].sectors.v[i] # cres.val[lei].sectors.v[j]

\* C28: in the map the batched query returns, the sectors of a LEI are the
\* sectors of the response bindings that carry that LEI, each listed once
\* even when several bindings repeat it
C28_GroupedOnce ==
    C28_Returned => \A lei \in DOMAIN cres.val : C28_FromItsOwn(lei) /\ C28_Once(lei)

\* the part of C28 that holds: the bindings are grouped by LEI
C28_Grouped == C28_Returned => \A lei \in DOMAIN cres.val : C28_FromItsOwn(lei)

\* a response with one binding of L1 and one of L2 has been mapped to the
\* sector of each under its own LEI
C28_TwoLeis ==
    /\ C28_Returned
    /\ call.leis = <<"L1", "L2">>
    /\ Len(C28_Rows) = 2
    /\ cres.val["L1"].sectors = PyList(<<[label |-> PyText("Electronics")]>>)
    /\ cres.val["L2"].sectors = PyList(<<[label |-> PyText("Banking")]>>)

\* _chunked_query_wikidata is running, or has ended, with a chunk size of
\* at least 1
C29_Chunked == call.kind = "chunked" /\ call.chunk_size >= 1

\* the number of requests the call has issued so far
C29_Issued == IF call.leis = <<>> THEN 0 ELSE (call.i \div call.chunk_size) + 1

\* ceil(n / c)
C29_Ceil(n, c) == (n + c - 1) \div c

\* the request in progress, or the last one made, addresses the slice of at
\* most chunk_size LEIs that starts at offset i, a multiple of chunk_size;
\* an empty list issues no request
C29_Slices ==
    /\ call.i % call.chunk_size = 0
    /\ call.leis = <<>> => (req = NoReq /\ call.state = "done")
    /\ call.leis # <<>> =>
          /\ req.leis = SubSeq(call.leis, call.i + 1,
                               Min(call.i + call.chunk_size, Len(call.leis)))
          /\ Len(req.leis) \in 1..call.chunk_size

\* C29: for a list of n LEIs and a chunk size c >= 1 the chunked query
\* issues its requests for the consecutive slices of c LEIs in input order,
\* each request addressing at most c LEIs, and when it ends it has issued
\* exactly ceil(n/c) of them, so that every position is in exactly one
\* chunk; for n = 0 it issues none
C29_Partition ==
    C29_Chunked =>
        /\ C29_Slices
        /\ call.state = "done" => C29_Issued = C29_Ceil(Len(call.leis), call.chunk_size)

\* the part of C29 that holds: the requests are the consecutive slices, and
\* a call that returns has issued ceil(n/c) of them
C29_WhenReturned ==
    C29_Chunked =>
        /\ C29_Slices
        /\ (call.state = "done" /\ cres.ok) =>
              C29_Issued = C29_Ceil(Len(call.leis), call.chunk_size)

\* two LEIs in chunks of one: the second request has ended the call
C29_TwoChunks ==
    /\ C29_Chunked
    /\ call.leis = <<"L1", "L2">>
    /\ call.chunk_size = 1
    /\ call.state = "done"
    /\ cres.ok
    /\ C29_Issued = 2
    /\ req.leis = <<"L2">>

=============================================================================
